---------------------------- MODULE Spec2Model ----------------------------
(***************************************************************************)
(* Highlight extraction and timeline compositing (faceless): the analysis  *)
(* pipeline of src/src/asr.js (analyzeVideos, mapGlobalTimeToFileRange,     *)
(* dedupeClips), the helpers of src/src/export.js (detectPeaks,             *)
(* extractSegments) and the export render loop (exportCompilation,          *)
(* renderClipToCanvas).                                                     *)
(*                                                                         *)
(* Time is counted in ticks of 0.05 s, so that the 0.1 s hop, the 0.5 s     *)
(* minimum clip length, the 1.0 s merge gap and minLen / 2 are integers.    *)
(* Interest-curve values are counted in units of 0.01, the fallback         *)
(* threshold of analyzeVideos.  Arrays are TLA+ sequences; the JavaScript   *)
(* index i of an array a is a[i + 1], written At(a, i).                     *)
(***************************************************************************)
EXTENDS Integers, Sequences, FiniteSets, TLC

VARIABLES
  pc,             \* position of the operation under study
  arr,            \* detectPeaks: the input array
  threshold,      \* detectPeaks: the threshold
  minDistance,    \* detectPeaks: the minimum index distance
  peaksOut,       \* detectPeaks: the returned indices
  dClips,         \* dedupeClips: the clip list passed in
  minGapSeconds,  \* dedupeClips: the merge gap, in ticks
  dOut,           \* dedupeClips: the returned list
  durations,      \* analyzeVideos: perFileResults[i].duration, in ticks
  globalAudio,    \* analyzeVideos: the concatenated interest curve
  minLen,         \* analyzeVideos: opts.minLen, in ticks
  maxLen,         \* analyzeVideos: opts.maxLen, in ticks
  maxClips,       \* analyzeVideos: opts.maxClips
  peaks,          \* analyzeVideos: the peaks of the global curve
  windows,        \* analyzeVideos: the global [start, end] of each peak handled
  mapped,         \* analyzeVideos: what mapGlobalTimeToFileRange returned for it
  candidates,     \* analyzeVideos: clips, as passed to dedupeClips
  suggestedClips, \* analyzeVideos: the clips returned
  asrResult,      \* extractSegments: the transcription result passed in
  captionSegments, \* extractSegments: the segments returned
  clipIndex,      \* exportCompilation: i, the clip being rendered
  exportOffset,   \* exportCompilation: the summed length of the clips before i
  recorder,       \* exportCompilation: the state of the MediaRecorder
  currentTime,    \* renderClipToCanvas: video.currentTime, in ticks
  segIdx,         \* renderClipToCanvas: the caption cursor
  frame,          \* renderClipToCanvas: the frame drawn last
  mediaOp,        \* the operation reading a source file through an object URL
  mediaItems,     \* its loop bound: samples, frames or clips to go through
  mediaIdx,       \* its loop index
  urlsCreated,    \* URL.createObjectURL calls of the operation
  urlsRevoked,    \* URL.revokeObjectURL calls of the operation
  asrOutcome,     \* exportCompilation: how the transcription step ends
  renderError,    \* renderClipToCanvas: where an error was raised, if any
  analyzeBtn,     \* els.analyzeBtn: "enabled" or "disabled"
  exportBtn,      \* els.exportBtn: "enabled" or "disabled"
  transcription,  \* state.transcription
  aPc,            \* analyze click handler: its position
  aFile,          \* analyzeVideos: fileIndex of the decode loop
  perFile,        \* analyzeVideos: the durations in perFileResults
  analysisError,  \* analyze click handler: what made the last run fail
  clicks,         \* analyze clicks so far
  retired,        \* the arrays state.suggestedClips held before, as they were left
  runs,           \* the export runs started, in the order of their clicks
  previews,       \* the clip previews in flight, by phase
  canvas,         \* els.previewCanvas: who set its size last, who drew on it last
  avgArr,         \* movingAverage: arr
  avgK,           \* movingAverage: k
  avgOut,         \* movingAverage: the array returned, each value a fraction
  curveLens,      \* analyzeVideos: smooth.length of each file
  musicFile,      \* prepareAudioGraph: musicFile
  musicGain,      \* prepareAudioGraph: musicGain, in tenths
  graphNodes,     \* the audio nodes created on the AudioContext
  graphEdges,     \* the connections made between them
  durationSec,    \* prepareAudioGraph: the durationSec it returns
  pipelinePromise, \* asr.js: pipelinePromise, null or the load it belongs to
  loads,          \* the model loads started so far, each by its state
  calls           \* the calls of runTranscriptionIfEnabled and transcribePCM

peakVars == <<arr, threshold, minDistance, peaksOut>>

dedupeVars == <<dClips, minGapSeconds, dOut>>

analyzeInputs == <<durations, globalAudio, minLen, maxLen, maxClips>>

analyzeVars == <<analyzeInputs, peaks, windows, mapped, candidates, suggestedClips>>

segmentVars == <<asrResult, captionSegments>>

exportVars == <<clipIndex, exportOffset, recorder, currentTime, segIdx, frame>>

mediaVars == <<mediaOp, mediaItems, mediaIdx, urlsCreated, urlsRevoked>>

\* Every variable but pc and the groups above; an action of the analysis or
\* of the export leaves them alone.
faultVars == <<asrOutcome, renderError>>

hostVars == <<analyzeBtn, exportBtn, transcription, aPc, aFile, perFile,
              analysisError, clicks, retired>>

uiVars == <<runs, previews, canvas>>

curveVars == <<avgArr, avgK, avgOut, curveLens>>

audioVars == <<musicFile, musicGain, graphNodes, graphEdges, durationSec>>

asrVars == <<pipelinePromise, loads, calls>>

otherVars == <<mediaVars, faultVars, hostVars, uiVars, curveVars, audioVars,
               asrVars>>

vars == <<pc, peakVars, dedupeVars, analyzeVars, segmentVars, exportVars,
          otherVars>>

-----------------------------------------------------------------------------
(* Bounds of the model. *)

MaxCurveLen == 7
MaxCurveVal == 1
MaxAvgLen == 6          \* values passed to movingAverage
MaxAvgVal == 2
MaxAvgK == 5            \* window of movingAverage
MaxMinDistance == 3
MaxClipsIn == 3         \* clips passed to dedupeClips
MaxGrid == 6            \* clip times are 0 .. MaxGrid quarter seconds
MaxFiles == 2
MaxAudioLen == 16       \* samples of the global interest curve
MaxChunks == 2          \* chunks of a transcription result
MaxRuns == 2            \* export runs started
MaxPreviews == 1        \* previews in flight at once
MaxGain == 5            \* musicGain, in tenths
MaxCalls == 3            \* calls of the two transcription functions
MaxClicks == 2          \* clicks on Analyze
MaxItems == 4           \* samples, frames or clips one media operation goes through
MaxAdvance == 3         \* ticks the playback position moves between two frames

-----------------------------------------------------------------------------
(* Constants of the program, in ticks of 0.05 s. *)

HopTicks == 2           \* hopSec = 1600 / 16000 = 0.1 s
MinClipTicks == 10      \* the 0.5 s floor of dedupeClips
DefaultMinGap == 20     \* dedupeClips(clips, 1.0)
FallbackThreshold == 1  \* q80 || 0.01, in units of 0.01
UnitGain == 10          \* speechGain.gain.value = 1.0, in tenths
PeakMinDistance == 3    \* detectPeaks(globalAudio, q80, 3)

\* Number.MAX_SAFE_INTEGER / 1000 seconds, the end of the fallback caption.
\* It stands here as the largest integer of the model checker: what matters
\* is that it exceeds every export time.
UnboundedEnd == 2147483647

-----------------------------------------------------------------------------
(* Helpers. *)

At(a, i) == a[i + 1]

Min(a, b) == IF a <= b THEN a ELSE b

Max(a, b) == IF a >= b THEN a ELSE b

SeqsUpTo(S, n) == UNION {[1..k -> S] : k \in 0..n}

\* A JavaScript value that may be undefined or null is <<>> when it is, and
\* <<v>> when it is the value v.
Undefined == <<>>

Some(v) == <<v>>

ValueOf(o) == o[1]

-----------------------------------------------------------------------------
(* detectPeaks, src/src/export.js 293-305. *)

\* A variant of IsLocalMax that accepts a value equal to its left neighbour.
IsLocalMax_WeakLeft(a, th, i) ==
  /\ At(a, i) > th
  /\ At(a, i) >= At(a, i - 1)
  /\ At(a, i) >= At(a, i + 1)

\* arr[i] > threshold && arr[i] > arr[i - 1] && arr[i] >= arr[i + 1]
IsLocalMax(a, th, i) ==
  /\ At(a, i) > th
  /\ At(a, i) > At(a, i - 1)
  /\ At(a, i) >= At(a, i + 1)

\* A variant of FarEnough that forgets the distance test.
FarEnough_NoCheck(pks, md, i) == TRUE

\* i - lastIdx >= minDistance, where lastIdx is -Infinity until a peak is
\* pushed and the last pushed peak (the last element of pks) afterwards.
FarEnough(pks, md, i) ==
  \/ pks = <<>>
  \/ i - pks[Len(pks)] >= md

RECURSIVE detectPeaksFrom(_, _, _, _, _)
detectPeaksFrom(a, th, md, i, pks) ==
  IF i >= Len(a) - 1 THEN pks
  ELSE IF IsLocalMax(a, th, i) /\ FarEnough(pks, md, i)
       THEN detectPeaksFrom(a, th, md, i + 1, Append(pks, i))
       ELSE detectPeaksFrom(a, th, md, i + 1, pks)

detectPeaks(a, th, md) == detectPeaksFrom(a, th, md, 1, <<>>)

-----------------------------------------------------------------------------
(* dedupeClips, src/src/asr.js 119-133.  A clip is a record                  *)
(* [fileIndex, start, end], times local to its file.                        *)

\* (a, b) => (a.fileIndex - b.fileIndex) || (a.start - b.start)
CompareClips(a, b) ==
  IF a.fileIndex - b.fileIndex # 0 THEN a.fileIndex - b.fileIndex
  ELSE a.start - b.start

\* One insertion of Array.prototype.sort, which is stable: c goes behind
\* every element that does not compare greater than it.
RECURSIVE InsertClip(_, _)
InsertClip(sorted, c) ==
  IF sorted = <<>> THEN <<c>>
  ELSE IF CompareClips(sorted[Len(sorted)], c) <= 0 THEN Append(sorted, c)
  ELSE Append(InsertClip(SubSeq(sorted, 1, Len(sorted) - 1), c),
              sorted[Len(sorted)])

RECURSIVE SortClipsFrom(_, _, _)
SortClipsFrom(clips, k, sorted) ==
  IF k > Len(clips) THEN sorted
  ELSE SortClipsFrom(clips, k + 1, InsertClip(sorted, clips[k]))

\* clips.sort(...)
SortClips(clips) == SortClipsFrom(clips, 1, <<>>)

\* !last || last.fileIndex !== c.fileIndex || c.start - last.end >= minGapSeconds
StartsNewClip(out, c, minGap) ==
  \/ out = <<>>
  \/ out[Len(out)].fileIndex # c.fileIndex
  \/ c.start - out[Len(out)].end >= minGap

\* last.end = Math.max(last.end, c.end)
MergeIntoLast(out, c) ==
  [out EXCEPT ![Len(out)].end = Max(out[Len(out)].end, c.end)]

\* for (const c of clips) { ... }
RECURSIVE MergePass(_, _, _, _)
MergePass(clips, k, out, minGap) ==
  IF k > Len(clips) THEN out
  ELSE IF StartsNewClip(out, clips[k], minGap)
       THEN MergePass(clips, k + 1, Append(out, clips[k]), minGap)
       ELSE MergePass(clips, k + 1, MergeIntoLast(out, clips[k]), minGap)

\* c => ({ ...c, start: Math.max(0, c.start), end: Math.max(c.start + 0.5, c.end) })
FloorClip(c) ==
  [c EXCEPT !.start = Max(0, c.start), !.end = Max(c.start + MinClipTicks, c.end)]

dedupeClips(clips, minGap) ==
  LET out == MergePass(SortClips(clips), 1, <<>>, minGap)
  IN  [k \in 1..Len(out) |-> FloorClip(out[k])]

-----------------------------------------------------------------------------
(* mapGlobalTimeToFileRange, src/src/asr.js 135-146.  The result is <<>>   *)
(* for null and <<clip>> for a clip.                                        *)

\* A variant of InFileRange that takes the end of the file as part of it.
InFileRange_Inclusive(start, off, dur) == start >= off /\ start <= off + dur

\* start >= off && start < off + dur
InFileRange(start, off, dur) == start >= off /\ start < off + dur

\* const localEnd = Math.min(end - off, dur)
LocalEnd(end, off, dur) == Min(end - off, dur)

RECURSIVE mapFrom(_, _, _, _, _)
mapFrom(start, end, durs, offsets, i) ==
  IF i >= Len(durs) THEN <<>>
  ELSE LET off == At(offsets, i)
           dur == At(durs, i)
       IN  IF InFileRange(start, off, dur)
           THEN <<[fileIndex |-> i, start |-> start - off,
                   end |-> LocalEnd(end, off, dur)]>>
           ELSE mapFrom(start, end, durs, offsets, i + 1)

mapGlobalTimeToFileRange(start, end, durs, offsets) ==
  mapFrom(start, end, durs, offsets, 0)

-----------------------------------------------------------------------------
(* analyzeVideos, src/src/asr.js 82-117, from the global curve and the      *)
(* per-file durations on.                                                   *)

RECURSIVE InsertNum(_, _)
InsertNum(sorted, v) ==
  IF sorted = <<>> THEN <<v>>
  ELSE IF sorted[Len(sorted)] - v <= 0 THEN Append(sorted, v)
  ELSE Append(InsertNum(SubSeq(sorted, 1, Len(sorted) - 1), v),
              sorted[Len(sorted)])

RECURSIVE SortNumsFrom(_, _, _)
SortNumsFrom(a, k, sorted) ==
  IF k > Len(a) THEN sorted
  ELSE SortNumsFrom(a, k + 1, InsertNum(sorted, a[k]))

\* [...globalAudio].sort((a, b) => a - b)
SortNums(a) == SortNumsFrom(a, 1, <<>>)

\* sorted[Math.floor(sorted.length * 0.8)] || 0.01: the fallback is taken
\* when the element is undefined (empty curve) or 0.
InterestThreshold(curve) ==
  LET sorted == SortNums(curve)
      idx == (Len(sorted) * 8) \div 10
  IN  IF idx >= Len(sorted) THEN FallbackThreshold
      ELSE IF At(sorted, idx) = 0 THEN FallbackThreshold
      ELSE At(sorted, idx)

\* let offset = 0; for (const res of perFileResults) { push(offset); offset += res.duration }
RECURSIVE VideoOffsetsFrom(_, _, _, _)
VideoOffsetsFrom(durs, k, offset, videoOffsets) ==
  IF k > Len(durs) THEN videoOffsets
  ELSE VideoOffsetsFrom(durs, k + 1, offset + durs[k], Append(videoOffsets, offset))

VideoOffsets(durs) == VideoOffsetsFrom(durs, 1, 0, <<>>)

\* clamp(value, min, Infinity) = Math.min(Infinity, Math.max(min, value))
clamp(value, min) == Max(min, value)

\* const start = clamp(t - minLen / 2, 0, Infinity), with t = pi * hopSec.
\* minLen is an even number of ticks in this model, so minLen / 2 is exact.
WindowStart(pi, mnLen) == clamp(pi * HopTicks - mnLen \div 2, 0)

\* const end = clamp(start + maxLen, 0, Infinity)
WindowEnd(start, mxLen) == clamp(start + mxLen, 0)

\* for (const pi of peaks) { ...; if (clip) clips.push(clip);
\*                           if (clips.length >= maxClips) break; }
\* acc holds clips and, for the record, each window and its mapping.
RECURSIVE CandidateLoop(_, _, _, _, _, _, _)
CandidateLoop(pks, k, durs, mnLen, mxLen, mxClips, acc) ==
  IF k > Len(pks) THEN acc
  ELSE LET start == WindowStart(pks[k], mnLen)
           end == WindowEnd(start, mxLen)
           clip == mapGlobalTimeToFileRange(start, end, durs, VideoOffsets(durs))
           next == [clips |-> acc.clips \o clip,
                    windows |-> Append(acc.windows, <<start, end>>),
                    mapped |-> Append(acc.mapped, clip)]
       IN  IF Len(next.clips) >= mxClips THEN next
           ELSE CandidateLoop(pks, k + 1, durs, mnLen, mxLen, mxClips, next)

analyzeVideos(durs, curve, mnLen, mxLen, mxClips) ==
  LET q80 == InterestThreshold(curve)
      pks == detectPeaks(curve, q80, PeakMinDistance)
      loop == CandidateLoop(pks, 1, durs, mnLen, mxLen, mxClips,
                            [clips |-> <<>>, windows |-> <<>>, mapped |-> <<>>])
  IN  [peaks |-> pks, windows |-> loop.windows, mapped |-> loop.mapped,
       candidates |-> loop.clips,
       clips |-> dedupeClips(loop.clips, DefaultMinGap)]

-----------------------------------------------------------------------------
(* movingAverage, src/src/export.js 282-291.  The values of the curve are   *)
(* integers and a quotient is kept as the fraction [num, den], so that the  *)
(* arithmetic is exact.                                                     *)

Fraction(n, d) == [num |-> n, den |-> d]

\* A variant of Divisor that divides by k from the first index on.
Divisor_Padded(i, k) == k

\* Math.min(i + 1, k)
Divisor(i, k) == Min(i + 1, k)

\* for (let i = 0; i < arr.length; i++) {
\*   sum += arr[i]; if (i >= k) sum -= arr[i - k];
\*   out[i] = sum / Math.min(i + 1, k); }
RECURSIVE MovingAverageLoop(_, _, _, _, _)
MovingAverageLoop(a, k, i, sum, out) ==
  IF i >= Len(a) THEN out
  ELSE LET added == sum + At(a, i)
           kept == IF i >= k THEN added - At(a, i - k) ELSE added
       IN  MovingAverageLoop(a, k, i + 1, kept,
                             [out EXCEPT ![i + 1] = Fraction(kept, Divisor(i, k))])

\* const out = new Array(arr.length).fill(0); let sum = 0; ...; return out
movingAverage(a, k) ==
  MovingAverageLoop(a, k, 0, 0, [i \in 1..Len(a) |-> Fraction(0, 1)])

-----------------------------------------------------------------------------
(* extractSegments, src/src/export.js 209-223.  A transcription result is   *)
(* null or a record [chunks, segments, text]; a chunk is a record            *)
(* [timestamp, time, timestart, timeend, start, end, text] whose fields may  *)
(* be undefined; a timestamp is an array of two numbers that may be null.    *)

\* JavaScript truthiness of a field holding an array (timestamp, time).
TruthyArray(o) == o # Undefined

\* JavaScript truthiness of a field holding a number: 0 is falsy.
TruthyNumber(o) == o # Undefined /\ ValueOf(o) # 0

\* x ?? 0
OrZero(o) == IF o = Undefined THEN 0 ELSE ValueOf(o)

\* ch.timestamp || ch.time || ch.timestart ? [ch.timestart, ch.timeend] : ch.timestamp
\* The conditional binds weaker than ||, so the array of timestart and
\* timeend is taken whenever any of the three fields is truthy.
ChunkTs(ch) ==
  IF TruthyArray(ch.timestamp) \/ TruthyArray(ch.time) \/ TruthyNumber(ch.timestart)
  THEN Some(<<ch.timestart, ch.timeend>>)
  ELSE ch.timestamp

\* Array.isArray(ts) ? (ts[0] ?? 0) : (ch.start ?? 0)
ChunkStart(ch) ==
  IF ChunkTs(ch) # Undefined THEN OrZero(ValueOf(ChunkTs(ch))[1])
  ELSE OrZero(ch.start)

\* Array.isArray(ts) ? (ts[1] ?? 0) : (ch.end ?? 0)
ChunkEnd(ch) ==
  IF ChunkTs(ch) # Undefined THEN OrZero(ValueOf(ChunkTs(ch))[2])
  ELSE OrZero(ch.end)

\* { start: Math.max(0, start), end: Math.max(start, end), text: ch.text || ... }
\* (every chunk of the model holds its text under text)
ChunkSegment(ch) ==
  [start |-> Max(0, ChunkStart(ch)),
   end |-> Max(ChunkStart(ch), ChunkEnd(ch)),
   text |-> ch.text]

\* asrResult.chunks || asrResult.segments || []
ResultChunks(result) ==
  IF result.chunks # Undefined THEN ValueOf(result.chunks)
  ELSE IF result.segments # Undefined THEN ValueOf(result.segments)
  ELSE <<>>

\* A variant of FallbackSegment whose end is 0.
FallbackSegment_ZeroEnd(text) == [start |-> 0, end |-> 0, text |-> text]

\* { start: 0, end: Number.MAX_SAFE_INTEGER / 1000, text: asrResult.text }
FallbackSegment(text) == [start |-> 0, end |-> UnboundedEnd, text |-> text]

\* Null (<<>>) for a null result, the segment list (<<segs>>) otherwise.
extractSegments(result) ==
  IF result = Undefined THEN Undefined
  ELSE LET r == ValueOf(result)
           chunks == ResultChunks(r)
           segs == [k \in 1..Len(chunks) |-> ChunkSegment(chunks[k])]
       IN  IF segs = <<>> /\ r.text # ""
           THEN Some(<<FallbackSegment(r.text)>>)
           ELSE Some(segs)

\* let captionSegments = null;
\* if (wantAsr && !transcription) { try { decodeClipsAudioToPCM; transcribePCM;
\*   captionSegments = extractSegments(asrResult) } catch (e) { warn } }
\* The stored transcription is null in every run (runTranscriptionIfEnabled
\* is given sampleRate 10 and returns null below 100).  The step ends in one
\* of these ways:
\*   "off"              ASR is not wanted;
\*   "decodeThrows"     decodeClipsAudioToPCM throws, caught by exportCompilation;
\*   "empty"            no samples: transcribePCM returns null at once;
\*   "loadThrows"       getPipeline rejects, transcribePCM catches, returns null;
\*   "transcribeThrows" the recogniser rejects, transcribePCM catches, returns null;
\*   "result"           the recogniser returns result.
AsrFailures == {"decodeThrows", "empty", "loadThrows", "transcribeThrows"}

AsrOutcomes == {"off", "result"} \cup AsrFailures

CaptionsFor(outcome, result) ==
  CASE outcome \in {"off", "decodeThrows"} -> Undefined
    [] outcome \in {"empty", "loadThrows", "transcribeThrows"} ->
         extractSegments(Undefined)
    [] outcome = "result" -> extractSegments(result)

-----------------------------------------------------------------------------
(* The render loop, src/src/export.js 58-67 and 81-129.  A frame is the     *)
(* record of one call of draw() that drew the video: the clip it belongs    *)
(* to, the export time it computed (undefined without captions), the caption *)
(* cursor after the call and the caption text drawn (undefined for none).   *)

\* A variant of AdvanceCursor that moves by at most one segment per frame.
RECURSIVE AdvanceCursor_OneStep(_, _, _)
AdvanceCursor_OneStep(segs, idx, t) ==
  IF idx < Len(segs) /\ At(segs, idx).end < t THEN idx + 1 ELSE idx

\* while (segIdx < captionSegments.length && captionSegments[segIdx].end < tExport) segIdx++;
RECURSIVE AdvanceCursor(_, _, _)
AdvanceCursor(segs, idx, t) ==
  IF idx < Len(segs) /\ At(segs, idx).end < t
  THEN AdvanceCursor(segs, idx + 1, t)
  ELSE idx

\* A variant of ExportTime that leaves the offset of the earlier clips out.
ExportTime_NoOffset(offset, cur, start) == cur - start

\* const tExport = exportOffset + (video.currentTime - start);
ExportTime(offset, cur, start) == offset + (cur - start)

\* A variant of CaptionAt that does not test the start of the segment.
CaptionAt_NoStartTest(segs, idx, t) ==
  IF idx < Len(segs) /\ t <= At(segs, idx).end
  THEN Some(At(segs, idx).text)
  ELSE Undefined

\* const seg = captionSegments[segIdx];
\* if (seg && seg.start <= tExport && tExport <= seg.end) drawCaption(seg.text)
CaptionAt(segs, idx, t) ==
  IF idx < Len(segs) /\ At(segs, idx).start <= t /\ t <= At(segs, idx).end
  THEN Some(At(segs, idx).text)
  ELSE Undefined

\* The frame draw() draws for clip i at playback position cur, the cursor
\* being idx before the call.  Export time and cursor are touched only when
\* there are caption segments (captionSegments && captionSegments.length).
DrawnFrame(captions, i, offset, cur, start, idx) ==
  IF captions = Undefined \/ ValueOf(captions) = <<>>
  THEN [clipIndex |-> i, tExport |-> Undefined, segIdx |-> idx,
        caption |-> Undefined]
  ELSE LET segs == ValueOf(captions)
           tExport == ExportTime(offset, cur, start)
           next == AdvanceCursor(segs, idx, tExport)
       IN  [clipIndex |-> i, tExport |-> Some(tExport), segIdx |-> next,
            caption |-> CaptionAt(segs, next, tExport)]

-----------------------------------------------------------------------------
(* The specifications.  Each one studies one operation; the variables of    *)
(* the other operations keep their idle values.                             *)

PeaksIdle ==
  /\ arr = <<>>
  /\ threshold = 0
  /\ minDistance = 0
  /\ peaksOut = <<>>

DedupeIdle ==
  /\ dClips = <<>>
  /\ minGapSeconds = 0
  /\ dOut = <<>>

AnalyzeIdle ==
  /\ durations = <<>>
  /\ globalAudio = <<>>
  /\ minLen = 0
  /\ maxLen = 0
  /\ maxClips = 0
  /\ peaks = <<>>
  /\ windows = <<>>
  /\ mapped = <<>>
  /\ candidates = <<>>
  /\ suggestedClips = <<>>

SegmentsIdle ==
  /\ asrResult = Undefined
  /\ captionSegments = Undefined

\* No frame has been drawn.
NoFrame ==
  [clipIndex |-> -1, tExport |-> Undefined, segIdx |-> 0, caption |-> Undefined]

ExportIdle ==
  /\ clipIndex = 0
  /\ exportOffset = 0
  /\ recorder = "inactive"
  /\ currentTime = 0
  /\ segIdx = 0
  /\ frame = NoFrame

\* The transcription step gives a result and no rendering error is raised.
FaultIdle ==
  /\ asrOutcome = "result"
  /\ renderError = "none"

\* The page after its start-up: refreshClips() has run on the empty list.
HostIdle ==
  /\ analyzeBtn = "enabled"
  /\ exportBtn = "disabled"
  /\ transcription = Undefined
  /\ aPc = "idle"
  /\ aFile = 0
  /\ perFile = <<>>
  /\ analysisError = "none"
  /\ clicks = 0
  /\ retired = <<>>

\* No export run, no preview, an untouched canvas.
UiIdle ==
  /\ runs = <<>>
  /\ previews = [opening |-> 0, drawing |-> 0]
  /\ canvas = [size |-> "none", pixels |-> "none"]

\* No audio graph has been built.
AudioIdle ==
  /\ musicFile = Undefined
  /\ musicGain = 0
  /\ graphNodes = {}
  /\ graphEdges = {}
  /\ durationSec = 0

\* let pipelinePromise = null; no transcription has been asked for.
AsrIdle ==
  /\ pipelinePromise = Undefined
  /\ loads = <<>>
  /\ calls = <<>>

\* No curve has been smoothed or measured.
CurveIdle ==
  /\ avgArr = <<>>
  /\ avgK = 0
  /\ avgOut = <<>>
  /\ curveLens = <<>>

MediaIdle ==
  /\ mediaOp = "none"
  /\ mediaItems = 0
  /\ mediaIdx = 0
  /\ urlsCreated = 0
  /\ urlsRevoked = 0

InitPeaks ==
  /\ pc = "start"
  /\ ExportIdle
  /\ MediaIdle
  /\ FaultIdle
  /\ HostIdle
  /\ UiIdle
  /\ AudioIdle
  /\ AsrIdle
  /\ CurveIdle
  /\ DedupeIdle
  /\ AnalyzeIdle
  /\ SegmentsIdle
  /\ arr \in SeqsUpTo(0..MaxCurveVal, MaxCurveLen)
  /\ threshold \in 0..MaxCurveVal
  /\ minDistance \in 1..MaxMinDistance
  /\ peaksOut = <<>>

CallDetectPeaks ==
  /\ pc = "start"
  /\ peaksOut' = detectPeaks(arr, threshold, minDistance)
  /\ pc' = "done"
  /\ UNCHANGED <<arr, threshold, minDistance, dedupeVars, analyzeVars, segmentVars,
               exportVars, otherVars>>

NextPeaks == CallDetectPeaks

SpecPeaks == InitPeaks /\ [][NextPeaks]_vars

\* The clips dedupeClips is tried on: valid intervals on a quarter-second
\* grid, in any order.
TimeGrid == {k * (MinClipTicks \div 2) : k \in 0..MaxGrid}

ClipInputs ==
  {c \in [fileIndex : 0..(MaxFiles - 1), start : TimeGrid, end : TimeGrid] :
     c.start < c.end}

InitDedupe ==
  /\ pc = "start"
  /\ ExportIdle
  /\ MediaIdle
  /\ FaultIdle
  /\ HostIdle
  /\ UiIdle
  /\ AudioIdle
  /\ AsrIdle
  /\ CurveIdle
  /\ PeaksIdle
  /\ AnalyzeIdle
  /\ SegmentsIdle
  /\ dClips \in SeqsUpTo(ClipInputs, MaxClipsIn)
  /\ minGapSeconds \in {MinClipTicks, DefaultMinGap}
  /\ dOut = <<>>

\* dClips keeps the argument as it was passed, for the claims to refer to.
CallDedupeClips ==
  /\ pc = "start"
  /\ dOut' = dedupeClips(dClips, minGapSeconds)
  /\ pc' = "deduped"
  /\ UNCHANGED <<dClips, minGapSeconds, peakVars, analyzeVars, segmentVars,
               exportVars, otherVars>>

NextDedupe == CallDedupeClips

SpecDedupe == InitDedupe /\ [][NextDedupe]_vars

InitAverage ==
  /\ pc = "start"
  /\ ExportIdle
  /\ MediaIdle
  /\ FaultIdle
  /\ HostIdle
  /\ UiIdle
  /\ AudioIdle
  /\ AsrIdle
  /\ PeaksIdle
  /\ DedupeIdle
  /\ AnalyzeIdle
  /\ SegmentsIdle
  /\ avgArr \in SeqsUpTo(0..MaxAvgVal, MaxAvgLen)
  /\ avgK \in 1..MaxAvgK
  /\ avgOut = <<>>
  /\ curveLens = <<>>

CallMovingAverage ==
  /\ pc = "start"
  /\ avgOut' = movingAverage(avgArr, avgK)
  /\ pc' = "averaged"
  /\ UNCHANGED <<avgArr, avgK, curveLens, peakVars, dedupeVars, analyzeVars,
                 segmentVars, exportVars, mediaVars, faultVars, hostVars,
                 uiVars, audioVars, asrVars>>

NextAverage == CallMovingAverage

SpecAverage == InitAverage /\ [][NextAverage]_vars

\* The inputs analyzeVideos is tried on.  A curve is flat at 0 but for at
\* most two spikes (the 80th-percentile threshold admits no more peaks than
\* that on curves this short); durations run from a quarter second to a
\* second; minLen / 2 and maxLen are a few ticks.
SpikeCurves(n) ==
  {[i \in 1..n |-> IF i \in S THEN 2 * FallbackThreshold ELSE 0] :
     S \in {T \in SUBSET (1..n) : Cardinality(T) <= 2}}

CurveInputs == UNION {SpikeCurves(n) : n \in 0..MaxAudioLen}

DurationInputs == {5, 10, 15, 20}

MinLenInputs == {0, 4}

MaxLenInputs == {4, 30}

MaxClipsInputs == {0, 1, 8}

InitAnalyze ==
  /\ pc = "start"
  /\ ExportIdle
  /\ MediaIdle
  /\ FaultIdle
  /\ HostIdle
  /\ UiIdle
  /\ AudioIdle
  /\ AsrIdle
  /\ CurveIdle
  /\ PeaksIdle
  /\ DedupeIdle
  /\ SegmentsIdle
  /\ durations \in SeqsUpTo(DurationInputs, MaxFiles)
  /\ globalAudio \in CurveInputs
  /\ minLen \in MinLenInputs
  /\ maxLen \in MaxLenInputs
  /\ maxClips \in MaxClipsInputs
  /\ peaks = <<>>
  /\ windows = <<>>
  /\ mapped = <<>>
  /\ candidates = <<>>
  /\ suggestedClips = <<>>

CallAnalyzeVideos ==
  /\ pc = "start"
  /\ \E r \in {analyzeVideos(durations, globalAudio, minLen, maxLen, maxClips)} :
         /\ peaks' = r.peaks
         /\ windows' = r.windows
         /\ mapped' = r.mapped
         /\ candidates' = r.candidates
         /\ suggestedClips' = r.clips
  /\ pc' = "analyzed"
  /\ UNCHANGED <<analyzeInputs, peakVars, dedupeVars, segmentVars,
               exportVars, otherVars>>

NextAnalyze == CallAnalyzeVideos

SpecAnalyze == InitAnalyze /\ [][NextAnalyze]_vars

\* The transcription results extractSegments is tried on.  Each chunk carries
\* its time pair in one of the field shapes, either number possibly missing;
\* the result holds its chunks under chunks or under segments, or holds none.
TimeInputs == {Undefined, Some(0), Some(3), Some(8)}

NoTimes ==
  [timestamp |-> Undefined, time |-> Undefined, timestart |-> Undefined,
   timeend |-> Undefined, start |-> Undefined, end |-> Undefined, text |-> "a"]

ChunkInputs ==
  {[NoTimes EXCEPT !.timestamp = Some(<<s, e>>)] : s, e \in TimeInputs}
  \cup {[NoTimes EXCEPT !.time = Some(<<s, e>>)] : s, e \in {Some(3)}}
  \cup {[NoTimes EXCEPT !.timestart = s, !.timeend = e] :
          s, e \in TimeInputs \ {Undefined}}
  \cup {[NoTimes EXCEPT !.start = s, !.end = e] : s, e \in TimeInputs}
  \cup {[NoTimes EXCEPT !.start = s, !.end = e] : s, e \in {Some(-2), Some(3)}}

ResultInputs ==
  {[chunks |-> c, segments |-> g, text |-> t] :
     c \in {Undefined} \cup {Some(l) : l \in SeqsUpTo(ChunkInputs, MaxChunks)},
     g \in {Undefined, Some(<<>>), Some(<<[NoTimes EXCEPT !.start = Some(3)]>>)},
     t \in {"", "hello"}}

InitSegments ==
  /\ pc = "start"
  /\ ExportIdle
  /\ MediaIdle
  /\ FaultIdle
  /\ HostIdle
  /\ UiIdle
  /\ AudioIdle
  /\ AsrIdle
  /\ CurveIdle
  /\ PeaksIdle
  /\ DedupeIdle
  /\ AnalyzeIdle
  /\ asrResult \in {Undefined} \cup {Some(r) : r \in ResultInputs}
  /\ captionSegments = Undefined

CallExtractSegments ==
  /\ pc = "start"
  /\ captionSegments' = extractSegments(asrResult)
  /\ pc' = "extracted"
  /\ UNCHANGED <<asrResult, peakVars, dedupeVars, analyzeVars,
               exportVars, otherVars>>

NextSegments == CallExtractSegments

SpecSegments == InitSegments /\ [][NextSegments]_vars

-----------------------------------------------------------------------------
(* The application: one analysis, src/src/app.js 219-251, followed by one   *)
(* export of the suggested clips, src/src/app.js 253-278.  The files are up  *)
(* to MaxFiles videos of 0.5 s or 1 s, the interest curve has up to two     *)
(* spikes, and the transcription has no, one unbounded or two timed         *)
(* segments, in order or not.                                               *)

AppCurveInputs == SpikeCurves(MaxAudioLen - 4)

AppDurationInputs == {MinClipTicks, DefaultMinGap}

AppMinLen == 4

AppMaxLen == 12

AppMaxClipsInputs == {1, 8}

TimedChunk(s, e, t) ==
  [NoTimes EXCEPT !.start = Some(s), !.end = Some(e), !.text = t]

AppResultInputs ==
  {Undefined,
   Some([chunks |-> Undefined, segments |-> Undefined, text |-> ""]),
   Some([chunks |-> Undefined, segments |-> Undefined, text |-> "hello"]),
   Some([chunks |-> Some(<<TimedChunk(0, 3, "a"), TimedChunk(3, 8, "b")>>),
         segments |-> Undefined, text |-> "a b"]),
   Some([chunks |-> Some(<<TimedChunk(3, 8, "b"), TimedChunk(0, 3, "a")>>),
         segments |-> Undefined, text |-> "b a"]),
   Some([chunks |-> Some(<<TimedChunk(1, 2, "a"), TimedChunk(12, 14, "b")>>),
         segments |-> Undefined, text |-> "a b"])}

Init ==
  /\ pc = "start"
  /\ ExportIdle
  /\ MediaIdle
  /\ FaultIdle
  /\ HostIdle
  /\ UiIdle
  /\ AudioIdle
  /\ AsrIdle
  /\ CurveIdle
  /\ PeaksIdle
  /\ DedupeIdle
  /\ durations \in SeqsUpTo(AppDurationInputs, MaxFiles) \ {<<>>}
  /\ globalAudio \in AppCurveInputs
  /\ minLen = AppMinLen
  /\ maxLen = AppMaxLen
  /\ maxClips \in AppMaxClipsInputs
  /\ peaks = <<>>
  /\ windows = <<>>
  /\ mapped = <<>>
  /\ candidates = <<>>
  /\ suggestedClips = <<>>
  /\ asrResult \in AppResultInputs
  /\ captionSegments = Undefined

\* exportCompilation up to the render loop: the export handler returns when
\* there is no clip; captionSegments = extractSegments(...); recorder.start();
\* i = 0, exportOffset = 0.
StartExport ==
  /\ pc = "analyzed"
  /\ suggestedClips # <<>>
  /\ captionSegments' = CaptionsFor(asrOutcome, asrResult)
  /\ recorder' = "recording"
  /\ clipIndex' = 0
  /\ exportOffset' = 0
  /\ pc' = "open"
  /\ UNCHANGED <<asrResult, currentTime, segIdx, frame, peakVars, dedupeVars,
                 analyzeVars,
                 otherVars>>

\* One call of draw() for the clip at clipIndex, the playback position being
\* cur and the cursor idx.  At or past clip.end the render resolves and the
\* loop of exportCompilation goes on: exportOffset += c.end - c.start, i++,
\* and after the last clip recorder.stop().  Before clip.end a frame is drawn
\* and draw() is scheduled again.
draw(cur, idx) ==
  LET clip == At(suggestedClips, clipIndex)
  IN  IF cur >= clip.end
      THEN /\ exportOffset' = exportOffset + (clip.end - clip.start)
           /\ clipIndex' = clipIndex + 1
           /\ IF clipIndex + 1 < Len(suggestedClips)
              THEN pc' = "open" /\ recorder' = recorder
              ELSE pc' = "finalizing" /\ recorder' = "stopped"
           /\ segIdx' = idx
           /\ frame' = frame
      ELSE /\ \E f \in {DrawnFrame(captionSegments, clipIndex, exportOffset,
                                   cur, clip.start, idx)} :
                 /\ frame' = f
                 /\ segIdx' = f.segIdx
           /\ pc' = "drawing"
           /\ UNCHANGED <<clipIndex, exportOffset, recorder>>

\* renderClipToCanvas up to and including its first call of draw():
\* video.currentTime = clip.start (a seek is limited to the media's
\* duration), let segIdx = 0, draw().
OpenClip ==
  /\ pc = "open"
  /\ \E cur \in {Min(At(suggestedClips, clipIndex).start,
                     At(durations, At(suggestedClips, clipIndex).fileIndex))} :
         /\ currentTime' = cur
         /\ draw(cur, 0)
  /\ UNCHANGED <<peakVars, dedupeVars, analyzeVars, segmentVars,
                 otherVars>>

\* The video plays: its position moves on by up to MaxAdvance ticks between
\* two frames and stops at the end of the file.
Playback ==
  /\ pc = "drawing"
  /\ currentTime < At(durations, At(suggestedClips, clipIndex).fileIndex)
  /\ \E d \in 1..MaxAdvance :
         currentTime' =
           Min(currentTime + d,
               At(durations, At(suggestedClips, clipIndex).fileIndex))
  /\ UNCHANGED <<pc, clipIndex, exportOffset, recorder, segIdx, frame,
                 peakVars, dedupeVars, analyzeVars, segmentVars,
                 otherVars>>

\* requestAnimationFrame(draw): the next call of draw().
DrawFrame ==
  /\ pc = "drawing"
  /\ draw(currentTime, segIdx)
  /\ UNCHANGED <<currentTime, peakVars, dedupeVars, analyzeVars, segmentVars,
                 otherVars>>

\* recorder.onstop resolves complete; the blob is built and downloaded.
Finalize ==
  /\ pc = "finalizing"
  /\ pc' = "done"
  /\ UNCHANGED <<peakVars, dedupeVars, analyzeVars, segmentVars, exportVars,
                 otherVars>>

Next ==
  \/ CallAnalyzeVideos
  \/ StartExport
  \/ OpenClip
  \/ Playback
  \/ DrawFrame
  \/ Finalize

Spec == Init /\ [][Next]_vars

\* The browser keeps playing the video, keeps calling the frame callback it
\* was asked for, and runs the continuation of every promise that resolves.
FairSpec ==
  /\ Spec
  /\ WF_vars(StartExport)
  /\ WF_vars(OpenClip)
  /\ WF_vars(Playback)
  /\ WF_vars(DrawFrame)
  /\ WF_vars(Finalize)

-----------------------------------------------------------------------------
(* The application with a transcription step that may fail: the export is   *)
(* started with ASR wanted or not, and the step ends in any of AsrOutcomes.  *)

InitAsr ==
  /\ pc = "start"
  /\ ExportIdle
  /\ MediaIdle
  /\ PeaksIdle
  /\ DedupeIdle
  /\ durations \in SeqsUpTo(AppDurationInputs, MaxFiles) \ {<<>>}
  /\ globalAudio \in AppCurveInputs
  /\ minLen = AppMinLen
  /\ maxLen = AppMaxLen
  /\ maxClips \in AppMaxClipsInputs
  /\ peaks = <<>>
  /\ windows = <<>>
  /\ mapped = <<>>
  /\ candidates = <<>>
  /\ suggestedClips = <<>>
  /\ asrOutcome \in AsrOutcomes
  /\ asrResult \in (IF asrOutcome = "result" THEN AppResultInputs
                                             ELSE {Undefined})
  /\ captionSegments = Undefined
  /\ renderError = "none"
  /\ HostIdle
  /\ UiIdle
  /\ AudioIdle
  /\ AsrIdle
  /\ CurveIdle

SpecAsr == InitAsr /\ [][Next]_vars

FairSpecAsr ==
  /\ SpecAsr
  /\ WF_vars(StartExport)
  /\ WF_vars(OpenClip)
  /\ WF_vars(Playback)
  /\ WF_vars(DrawFrame)
  /\ WF_vars(Finalize)

-----------------------------------------------------------------------------
(* The application with rendering errors: an exception may be raised when a *)
(* clip is opened, by its first call of draw(), or by a later call of       *)
(* draw() from an animation frame callback.                                 *)

FaultFrame ==
  UNCHANGED <<clipIndex, exportOffset, recorder, currentTime, segIdx, frame,
              peakVars, dedupeVars, analyzeVars, segmentVars, mediaVars,
              asrOutcome, hostVars, uiVars, curveVars,
              audioVars, asrVars>>

\* renderClipToCanvas throws before it builds its promise (for one,
\* URL.createObjectURL(file) with no file at clip.fileIndex): the await in
\* the loop of exportCompilation throws and exportCompilation rejects.
OpenThrows ==
  /\ pc = "open"
  /\ renderError' = "open"
  /\ pc' = "rejected"
  /\ FaultFrame

\* The first draw() throws inside the promise executor: the promise rejects,
\* .finally revokes the URL, the await throws and exportCompilation rejects.
FirstDrawThrows ==
  /\ pc = "open"
  /\ renderError' = "first"
  /\ pc' = "rejected"
  /\ FaultFrame

\* A later draw() throws inside its animation frame callback: the exception
\* goes to the browser, resolve is never called, draw is not scheduled
\* again, and the await in the loop of exportCompilation stays pending.
LaterDrawThrows ==
  /\ pc = "drawing"
  /\ renderError' = "later"
  /\ pc' = "stalled"
  /\ FaultFrame

NextFaults ==
  \/ Next
  \/ OpenThrows
  \/ FirstDrawThrows
  \/ LaterDrawThrows

SpecFaults == Init /\ [][NextFaults]_vars

FairSpecFaults ==
  /\ SpecFaults
  /\ WF_vars(StartExport)
  /\ WF_vars(OpenClip)
  /\ WF_vars(Playback)
  /\ WF_vars(DrawFrame)
  /\ WF_vars(Finalize)

-----------------------------------------------------------------------------
(* The analyze click handler, src/src/app.js 219-251, with the file loop of *)
(* analyzeVideos, src/src/asr.js 65-80, step by step: for each file the     *)
(* audio is decoded, then the scenes are scanned; either may throw.  The    *)
(* files and their audio are those of the input; Analyze is clicked up to   *)
(* MaxClicks times.                                                         *)

\* refreshClips: els.exportBtn.disabled = true for an empty list, false
\* otherwise.
refreshClips(clips) == IF clips = <<>> THEN "disabled" ELSE "enabled"

\* A variant of AfterDecode that goes on with the file when its decode fails.
AfterDecode_Swallow(ok) == "scanning"

\* const { pcm, sampleRate: sr } = await decodeVideoAudioPCM(file): where
\* analyzeVideos goes on, a rejection leaving it at once.
AfterDecode(ok) == IF ok THEN "scanning" ELSE "failed"

InitAnalysisRun ==
  /\ pc = "start"
  /\ ExportIdle
  /\ MediaIdle
  /\ FaultIdle
  /\ HostIdle
  /\ UiIdle
  /\ AudioIdle
  /\ AsrIdle
  /\ CurveIdle
  /\ PeaksIdle
  /\ DedupeIdle
  /\ SegmentsIdle
  /\ durations \in SeqsUpTo(AppDurationInputs, MaxFiles)
  /\ globalAudio \in AppCurveInputs
  /\ minLen = AppMinLen
  /\ maxLen = AppMaxLen
  /\ maxClips \in AppMaxClipsInputs
  /\ peaks = <<>>
  /\ windows = <<>>
  /\ mapped = <<>>
  /\ candidates = <<>>
  /\ suggestedClips = <<>>

AnalysisFrame ==
  UNCHANGED <<pc, peakVars, dedupeVars, analyzeInputs, segmentVars, exportVars,
              mediaVars, faultVars, uiVars, curveVars, audioVars,
              asrVars>>

\* A click on Analyze with no video: alert and return.
AnalyzeClickNoVideo ==
  /\ aPc = "idle"
  /\ analyzeBtn = "enabled"
  /\ clicks < MaxClicks
  /\ durations = <<>>
  /\ clicks' = clicks + 1
  /\ UNCHANGED <<analyzeBtn, exportBtn, transcription, aPc, aFile, perFile,
                 analysisError, retired, peaks, windows, mapped, candidates,
                 suggestedClips>>
  /\ AnalysisFrame

\* A click on Analyze: els.analyzeBtn.disabled = true; analyzeVideos starts
\* and awaits the audio of file 0.
AnalyzeClick ==
  /\ aPc = "idle"
  /\ analyzeBtn = "enabled"
  /\ clicks < MaxClicks
  /\ durations # <<>>
  /\ clicks' = clicks + 1
  /\ analyzeBtn' = "disabled"
  /\ aFile' = 0
  /\ perFile' = <<>>
  /\ analysisError' = "none"
  /\ aPc' = "decoding"
  /\ UNCHANGED <<exportBtn, transcription, retired, peaks, windows, mapped,
                 candidates, suggestedClips>>
  /\ AnalysisFrame

\* catch (err) { console.error; alert } finally { els.analyzeBtn.disabled =
\* false }: the handler after analyzeVideos has rejected.
AnalysisRejected(what) ==
  /\ analysisError' = what
  /\ aPc' = "idle"
  /\ analyzeBtn' = "enabled"
  /\ UNCHANGED <<exportBtn, transcription, aFile, perFile, clicks, retired,
                 peaks, windows, mapped, candidates, suggestedClips>>

\* decodeVideoAudioPCM(file) settles: the curve of the file is built, or the
\* rejection leaves analyzeVideos.
DecodeAudio ==
  /\ aPc = "decoding"
  /\ \E ok \in BOOLEAN :
       IF AfterDecode(ok) = "failed"
       THEN AnalysisRejected("decode")
       ELSE /\ aPc' = AfterDecode(ok)
            /\ analysisError' = IF ok THEN analysisError ELSE "decode"
            /\ UNCHANGED <<analyzeBtn, exportBtn, transcription, aFile,
                           perFile, clicks, retired, peaks, windows, mapped,
                           candidates, suggestedClips>>
  /\ AnalysisFrame

\* detectScenes(file) throws.
ScenesFail ==
  /\ aPc = "scanning"
  /\ AnalysisRejected("scenes")
  /\ AnalysisFrame

\* detectScenes(file) returns: perFileResults.push(...), and the loop goes
\* to the next file.
ScenesDone ==
  /\ aPc = "scanning"
  /\ aFile + 1 < Len(durations)
  /\ perFile' = Append(perFile, At(durations, aFile))
  /\ aFile' = aFile + 1
  /\ aPc' = "decoding"
  /\ UNCHANGED <<analyzeBtn, exportBtn, transcription, analysisError, clicks,
                 retired, peaks, windows, mapped, candidates, suggestedClips>>
  /\ AnalysisFrame

\* detectScenes returns for the last file: analyzeVideos computes its result
\* and returns; state.suggestedClips = analysis.clips (a new array: the one
\* held before is kept by whoever still refers to it); refreshClips(); with
\* ASR enabled runTranscriptionIfEnabled is awaited, else the handler ends.
AnalysisDone ==
  /\ aPc = "scanning"
  /\ aFile + 1 = Len(durations)
  /\ perFile' = Append(perFile, At(durations, aFile))
  /\ \E r \in {analyzeVideos(perFile', globalAudio, minLen, maxLen, maxClips)} :
         /\ peaks' = r.peaks
         /\ windows' = r.windows
         /\ mapped' = r.mapped
         /\ candidates' = r.candidates
         /\ suggestedClips' = r.clips
         /\ exportBtn' = refreshClips(r.clips)
  /\ retired' = Append(retired, suggestedClips)
  /\ \E enableAsr \in BOOLEAN :
         IF enableAsr
         THEN aPc' = "transcribing" /\ UNCHANGED analyzeBtn
         ELSE aPc' = "idle" /\ analyzeBtn' = "enabled"
  /\ UNCHANGED <<transcription, aFile, analysisError, clicks>>
  /\ AnalysisFrame

\* runTranscriptionIfEnabled(analysis.audioPCM, 10, ...) settles: null, for
\* the sample rate is below 100 (and on any failure); state.transcription =
\* null; finally { els.analyzeBtn.disabled = false }.
TranscriptionDone ==
  /\ aPc = "transcribing"
  /\ transcription' = Undefined
  /\ aPc' = "idle"
  /\ analyzeBtn' = "enabled"
  /\ UNCHANGED <<exportBtn, aFile, perFile, analysisError, clicks, retired,
                 peaks, windows, mapped, candidates, suggestedClips>>
  /\ AnalysisFrame

NextAnalysisRun ==
  \/ AnalyzeClickNoVideo
  \/ AnalyzeClick
  \/ DecodeAudio
  \/ ScenesFail
  \/ ScenesDone
  \/ AnalysisDone
  \/ TranscriptionDone

SpecAnalysisRun == InitAnalysisRun /\ [][NextAnalysisRun]_vars

\* The number of values of a file's curve, for a file of d ticks: resample-
\* MonoPCM gives 16000 samples a second and computeRMS(mono16, 1600, 1600)
\* one value per window of 1600 samples, the windows not overlapping.  A
\* last window that is not full is counted or dropped: both are allowed for.
RmsFrames(d) == {d \div HopTicks, (d + HopTicks - 1) \div HopTicks}

\* The lengths the curves of the files durs can have, file by file.
PerFileLengths(durs) ==
  {lens \in [1..Len(durs) -> 0..MaxAudioLen] :
     \A f \in 1..Len(durs) : lens[f] \in RmsFrames(durs[f])}

RECURSIVE SumOf(_)
SumOf(nums) == IF nums = <<>> THEN 0 ELSE Head(nums) + SumOf(Tail(nums))

InitCurve ==
  /\ pc = "start"
  /\ ExportIdle
  /\ MediaIdle
  /\ FaultIdle
  /\ HostIdle
  /\ UiIdle
  /\ AudioIdle
  /\ AsrIdle
  /\ PeaksIdle
  /\ DedupeIdle
  /\ SegmentsIdle
  /\ avgArr = <<>>
  /\ avgK = 0
  /\ avgOut = <<>>
  /\ curveLens = <<>>
  /\ durations \in SeqsUpTo(DurationInputs, MaxFiles)
  /\ globalAudio = <<>>
  /\ minLen = AppMinLen
  /\ maxLen = AppMaxLen
  /\ maxClips \in AppMaxClipsInputs
  /\ peaks = <<>>
  /\ windows = <<>>
  /\ mapped = <<>>
  /\ candidates = <<>>
  /\ suggestedClips = <<>>

\* analyzeVideos from its file loop on: each file's curve is built and
\* appended to globalAudio (globalAudio.concat(Array.from(smooth))), its
\* duration is recorded, and the peaks of the whole curve become clips.
AnalyzeFiles ==
  /\ pc = "start"
  /\ \E lens \in PerFileLengths(durations) :
       \E curve \in SpikeCurves(SumOf(lens)) :
         \E r \in {analyzeVideos(durations, curve, minLen, maxLen, maxClips)} :
           /\ curveLens' = lens
           /\ globalAudio' = curve
           /\ peaks' = r.peaks
           /\ windows' = r.windows
           /\ mapped' = r.mapped
           /\ candidates' = r.candidates
           /\ suggestedClips' = r.clips
  /\ pc' = "analyzed"
  /\ UNCHANGED <<durations, minLen, maxLen, maxClips, avgArr, avgK, avgOut,
                 peakVars, dedupeVars, segmentVars, exportVars, mediaVars,
                 faultVars, hostVars, uiVars, audioVars, asrVars>>

NextCurve == AnalyzeFiles

SpecCurve == InitCurve /\ [][NextCurve]_vars

-----------------------------------------------------------------------------
(* prepareAudioGraph, src/src/export.js 145-169.  An audio node is a record *)
(* [name, gain, started]: gain is undefined for a node that is no gain      *)
(* node, started tells whether start() was called on a source.  Gains are   *)
(* in tenths.                                                               *)

AudioNode(name, gain, started) ==
  [name |-> name, gain |-> gain, started |-> started]

\* const destination = audioCtx.createMediaStreamDestination();
\* const speechGain = audioCtx.createGain(); speechGain.gain.value = 1.0;
NodesAtStart ==
  {AudioNode("destination", Undefined, FALSE),
   AudioNode("speechGain", Some(UnitGain), FALSE)}

\* musicSource = audioCtx.createBufferSource(); musicGainNode = createGain();
\* musicGainNode.gain.value = musicGain; musicSource.start()
MusicNodes(gain) ==
  {AudioNode("musicSource", Undefined, TRUE),
   AudioNode("musicGainNode", Some(gain), FALSE)}

\* musicSource.connect(musicGainNode).connect(destination)
MusicEdges ==
  {<<"musicSource", "musicGainNode">>, <<"musicGainNode", "destination">>}

\* clips.reduce((acc, c) => acc + (c.end - c.start), 0)
RECURSIVE TotalLength(_)
TotalLength(clips) ==
  IF clips = <<>> THEN 0
  ELSE (Head(clips).end - Head(clips).start) + TotalLength(Tail(clips))

AudioClipInputs ==
  {[fileIndex |-> 0, start |-> 0, end |-> MinClipTicks],
   [fileIndex |-> 0, start |-> DefaultMinGap, end |-> 2 * DefaultMinGap],
   [fileIndex |-> 1, start |-> 0, end |-> DefaultMinGap]}

\* A music file is one decodeAudioData decodes ("audio") or not ("broken").
MusicInputs == {Undefined, Some("audio"), Some("broken")}

InitAudio ==
  /\ pc = "start"
  /\ ExportIdle
  /\ MediaIdle
  /\ FaultIdle
  /\ HostIdle
  /\ UiIdle
  /\ AsrIdle
  /\ CurveIdle
  /\ PeaksIdle
  /\ DedupeIdle
  /\ SegmentsIdle
  /\ durations = <<>>
  /\ globalAudio = <<>>
  /\ minLen = 0
  /\ maxLen = 0
  /\ maxClips = 0
  /\ peaks = <<>>
  /\ windows = <<>>
  /\ mapped = <<>>
  /\ candidates = <<>>
  /\ suggestedClips \in SeqsUpTo(AudioClipInputs, MaxClipsIn)
  /\ musicFile \in MusicInputs
  /\ musicGain \in 0..MaxGain
  /\ graphNodes = {}
  /\ graphEdges = {}
  /\ durationSec = 0

AudioFrame ==
  UNCHANGED <<peakVars, dedupeVars, analyzeVars, segmentVars, exportVars,
              mediaVars, faultVars, hostVars, uiVars, curveVars, asrVars,
              musicFile, musicGain>>

\* prepareAudioGraph without a music file: it runs to its return at once.
PrepareWithoutMusic ==
  /\ pc = "start"
  /\ musicFile = Undefined
  /\ graphNodes' = NodesAtStart
  /\ graphEdges' = {}
  /\ durationSec' = TotalLength(suggestedClips)
  /\ pc' = "returned"
  /\ AudioFrame

\* prepareAudioGraph with a music file, up to await musicFile.arrayBuffer().
PrepareWithMusic ==
  /\ pc = "start"
  /\ musicFile # Undefined
  /\ graphNodes' = NodesAtStart
  /\ graphEdges' = {}
  /\ pc' = "loadingMusic"
  /\ UNCHANGED durationSec
  /\ AudioFrame

\* The music is read and decoded: the source and its gain node are created,
\* connected and started; prepareAudioGraph returns.
MusicLoaded ==
  /\ pc = "loadingMusic"
  /\ musicFile = Some("audio")
  /\ graphNodes' = graphNodes \cup MusicNodes(musicGain)
  /\ graphEdges' = graphEdges \cup MusicEdges
  /\ durationSec' = TotalLength(suggestedClips)
  /\ pc' = "returned"
  /\ AudioFrame

\* decodeAudioData rejects: prepareAudioGraph rejects, and with it
\* exportCompilation.
MusicThrows ==
  /\ pc = "loadingMusic"
  /\ musicFile = Some("broken")
  /\ pc' = "rejected"
  /\ UNCHANGED <<graphNodes, graphEdges, durationSec>>
  /\ AudioFrame

NextAudio ==
  \/ PrepareWithoutMusic
  \/ PrepareWithMusic
  \/ MusicLoaded
  \/ MusicThrows

SpecAudio == InitAudio /\ [][NextAudio]_vars

-----------------------------------------------------------------------------
(* getPipeline and its two callers, src/src/asr.js 4-50.  A load is the     *)
(* promise of the async function that imports the library and builds the    *)
(* pipeline: "pending", "fulfilled" or "rejected".  pipelinePromise is null *)
(* or names a load by its index in loads.  A call is a record               *)
(*   fn          the function called;                                       *)
(*   sampleRate  its sampleRate argument;                                   *)
(*   found       what pipelinePromise was when the call reached getPipeline;*)
(*   load        the load whose promise the call awaits (undefined when the *)
(*               call returned before getPipeline);                         *)
(*   at          "awaitPipeline", "transcribing" or "returned";             *)
(*   result      what it returned, "null" or "result".                      *)

AsrFunctions == {"runTranscriptionIfEnabled", "transcribePCM"}

SampleRates == {10, 16000}

\* The state of the promise pipelinePromise holds, "null" for none.
PromiseState(promise) ==
  IF promise = Undefined THEN "null" ELSE loads[ValueOf(promise)]

\* A variant of StartsLoad that loads again unless a load has succeeded.
StartsLoad_UnlessLoaded(promise) == PromiseState(promise) # "fulfilled"

\* getPipeline: if (!pipelinePromise)
StartsLoad(promise) == promise = Undefined

InitPipeline ==
  /\ pc = "start"
  /\ ExportIdle
  /\ MediaIdle
  /\ FaultIdle
  /\ HostIdle
  /\ UiIdle
  /\ AudioIdle
  /\ AsrIdle
  /\ CurveIdle
  /\ PeaksIdle
  /\ DedupeIdle
  /\ AnalyzeIdle
  /\ SegmentsIdle

PipelineFrame ==
  UNCHANGED <<pc, peakVars, dedupeVars, analyzeVars, segmentVars, exportVars,
              mediaVars, faultVars, hostVars, uiVars, curveVars, audioVars>>

\* A call with no samples: if (!audioPCM || !audioPCM.length) return null.
CallWithoutSamples(fn) ==
  /\ Len(calls) < MaxCalls
  /\ calls' = Append(calls, [fn |-> fn, sampleRate |-> 0, found |-> "none",
                             load |-> Undefined, at |-> "returned",
                             result |-> "null"])
  /\ UNCHANGED <<pipelinePromise, loads>>
  /\ PipelineFrame

\* A call with samples, up to await getPipeline(): getPipeline starts the
\* load if it finds no promise, and returns pipelinePromise.
CallWithSamples(fn, rate) ==
  /\ Len(calls) < MaxCalls
  /\ IF StartsLoad(pipelinePromise)
     THEN /\ loads' = Append(loads, "pending")
          /\ pipelinePromise' = Some(Len(loads) + 1)
     ELSE UNCHANGED <<loads, pipelinePromise>>
  /\ calls' = Append(calls, [fn |-> fn, sampleRate |-> rate,
                             found |-> PromiseState(pipelinePromise),
                             load |-> pipelinePromise', at |-> "awaitPipeline",
                             result |-> "null"])
  /\ PipelineFrame

\* The import and pipeline(...) of a load succeed or fail.
LoadSettles(id, ok) ==
  /\ loads[id] = "pending"
  /\ loads' = [loads EXCEPT ![id] = IF ok THEN "fulfilled" ELSE "rejected"]
  /\ UNCHANGED <<pipelinePromise, calls>>
  /\ PipelineFrame

\* await getPipeline() ends for a call: on a rejection the catch returns
\* null; runTranscriptionIfEnabled returns null for sampleRate < 100;
\* otherwise the call awaits asr(...).
CallResumes(c) ==
  /\ calls[c].at = "awaitPipeline"
  /\ loads[ValueOf(calls[c].load)] # "pending"
  /\ calls' = [calls EXCEPT ![c].at =
                 IF \/ loads[ValueOf(calls[c].load)] = "rejected"
                    \/ /\ calls[c].fn = "runTranscriptionIfEnabled"
                       /\ calls[c].sampleRate < 100
                 THEN "returned" ELSE "transcribing"]
  /\ UNCHANGED <<pipelinePromise, loads>>
  /\ PipelineFrame

\* asr(...) settles: the result is returned, or the catch returns null.
AsrSettles(c, ok) ==
  /\ calls[c].at = "transcribing"
  /\ calls' = [calls EXCEPT ![c].at = "returned",
                            ![c].result = IF ok THEN "result" ELSE "null"]
  /\ UNCHANGED <<pipelinePromise, loads>>
  /\ PipelineFrame

NextPipeline ==
  \/ \E fn \in AsrFunctions : CallWithoutSamples(fn)
  \/ \E fn \in AsrFunctions : \E rate \in SampleRates : CallWithSamples(fn, rate)
  \/ \E id \in 1..Len(loads) : \E ok \in BOOLEAN : LoadSettles(id, ok)
  \/ \E c \in 1..Len(calls) : CallResumes(c)
  \/ \E c \in 1..Len(calls) : \E ok \in BOOLEAN : AsrSettles(c, ok)

SpecPipeline == InitPipeline /\ [][NextPipeline]_vars

-----------------------------------------------------------------------------
(* The page as a whole, src/src/app.js: the clicks on Analyze, Export,      *)
(* Preview and Remove in any order, and the steps of the analysis, of the   *)
(* export runs and of the previews they start, interleaved as the browser's *)
(* event loop lets them.  A run of exportCompilation is a record            *)
(*   phase     "preparing" (up to recorder.start()), "opening" (render-      *)
(*             ClipToCanvas up to loadeddata), "drawing" (its draw loop),    *)
(*             "finalizing" (recorder.stop() called), "settled";            *)
(*   i         the index of its loop over clips;                            *)
(*   array     the identity of the array it was given as clips;             *)
(*   atClick   what that array held at the click;                           *)
(*   rendered  the clips it has taken from the array so far.                *)
(* Arrays are told apart by identity: the array state.suggestedClips holds  *)
(* now is Len(retired) + 1, the ones it held before are 1..Len(retired).    *)

ArrayOf(id) == IF id = Len(retired) + 1 THEN suggestedClips ELSE retired[id]

\* state.suggestedClips.splice(idx, 1)
Splice(clips, idx) ==
  [k \in 1..(Len(clips) - 1) |-> IF k <= idx THEN clips[k] ELSE clips[k + 1]]

\* for (let i = 0, ...; i < clips.length; i++) { const c = clips[i]; ...
\* await renderClipToCanvas({ clip: c, ... }) } and past the loop
\* recorder.stop(): the head of the loop at index i.
RunLoopHead(run, i) ==
  IF i < Len(ArrayOf(run.array))
  THEN [run EXCEPT !.i = i, !.phase = "opening",
                   !.rendered = Append(@, At(ArrayOf(run.array), i))]
  ELSE [run EXCEPT !.i = i, !.phase = "finalizing"]

UiCurveInputs == {c \in AppCurveInputs : c[2] > 0 /\ c[3] = 0}

InitUI ==
  /\ pc = "start"
  /\ ExportIdle
  /\ MediaIdle
  /\ FaultIdle
  /\ HostIdle
  /\ UiIdle
  /\ AudioIdle
  /\ AsrIdle
  /\ CurveIdle
  /\ PeaksIdle
  /\ DedupeIdle
  /\ SegmentsIdle
  /\ durations \in SeqsUpTo(AppDurationInputs, MaxFiles)
  /\ globalAudio \in UiCurveInputs
  /\ minLen = AppMinLen
  /\ maxLen = AppMaxLen
  /\ maxClips \in AppMaxClipsInputs
  /\ peaks = <<>>
  /\ windows = <<>>
  /\ mapped = <<>>
  /\ candidates = <<>>
  /\ suggestedClips = <<>>

\* What a step of an export run, of a preview or of Remove leaves alone.
UiFrame ==
  UNCHANGED <<pc, peakVars, dedupeVars, analyzeInputs, peaks, windows, mapped,
              candidates, segmentVars, exportVars, mediaVars, faultVars,
              analyzeBtn, transcription, aPc, aFile, perFile, analysisError,
              clicks, retired, curveVars, audioVars, asrVars>>

\* A click on Export with an empty list: the handler returns.
ExportClickNoClips ==
  /\ exportBtn = "enabled"
  /\ suggestedClips = <<>>
  /\ UNCHANGED <<suggestedClips, exportBtn, uiVars>>
  /\ UiFrame

\* A click on Export: els.exportBtn.disabled = true; exportCompilation is
\* called with clips: state.suggestedClips, sets canvas.width and
\* canvas.height and awaits prepareAudioGraph.
ExportClick ==
  /\ exportBtn = "enabled"
  /\ suggestedClips # <<>>
  /\ Len(runs) < MaxRuns
  /\ exportBtn' = "disabled"
  /\ canvas' = [canvas EXCEPT !.size = "export"]
  /\ runs' = Append(runs, [phase |-> "preparing", i |-> 0,
                           array |-> Len(retired) + 1,
                           atClick |-> suggestedClips, rendered |-> <<>>])
  /\ UNCHANGED <<suggestedClips, previews>>
  /\ UiFrame

\* The audio graph and the captions are ready; recorder.start(); the loop
\* over clips begins.
RunPrepared(r) ==
  /\ runs[r].phase = "preparing"
  /\ runs' = [runs EXCEPT ![r] = RunLoopHead(@, 0)]
  /\ UNCHANGED <<suggestedClips, exportBtn, previews, canvas>>
  /\ UiFrame

\* loadeddata of the clip's video: renderClipToCanvas calls draw() for the
\* first time, which draws the frame on the canvas.
RunOpened(r) ==
  /\ runs[r].phase = "opening"
  /\ runs' = [runs EXCEPT ![r].phase = "drawing"]
  /\ canvas' = [canvas EXCEPT !.pixels = "export"]
  /\ UNCHANGED <<suggestedClips, exportBtn, previews>>
  /\ UiFrame

\* requestAnimationFrame(draw) before the clip's end: a frame is drawn.
RunDraw(r) ==
  /\ runs[r].phase = "drawing"
  /\ canvas' = [canvas EXCEPT !.pixels = "export"]
  /\ UNCHANGED <<suggestedClips, exportBtn, previews, runs>>
  /\ UiFrame

\* requestAnimationFrame(draw) at the clip's end: resolve(); the loop of
\* exportCompilation goes to its next index.
RunClipEnds(r) ==
  /\ runs[r].phase = "drawing"
  /\ runs' = [runs EXCEPT ![r] = RunLoopHead(@, @.i + 1)]
  /\ UNCHANGED <<suggestedClips, exportBtn, previews, canvas>>
  /\ UiFrame

\* recorder.onstop: the file is downloaded, exportCompilation returns, and
\* the handler's finally sets els.exportBtn.disabled = false.
RunFinalized(r) ==
  /\ runs[r].phase = "finalizing"
  /\ runs' = [runs EXCEPT ![r].phase = "settled"]
  /\ exportBtn' = "enabled"
  /\ UNCHANGED <<suggestedClips, previews, canvas>>
  /\ UiFrame

\* A click on a row's Preview button: previewClip(c) calls
\* renderPreviewForClip, which waits for the clip's video to load.
PreviewClick ==
  /\ suggestedClips # <<>>
  /\ previews.opening + previews.drawing < MaxPreviews
  /\ previews' = [previews EXCEPT !.opening = @ + 1]
  /\ UNCHANGED <<suggestedClips, exportBtn, runs, canvas>>
  /\ UiFrame

\* The preview's video has loaded: renderPreviewForClip sets canvas.width
\* and canvas.height of els.previewCanvas and calls draw() for the first
\* time.
PreviewOpened ==
  /\ previews.opening > 0
  /\ previews' = [opening |-> previews.opening - 1,
                  drawing |-> previews.drawing + 1]
  /\ canvas' = [size |-> "preview", pixels |-> "preview"]
  /\ UNCHANGED <<suggestedClips, exportBtn, runs>>
  /\ UiFrame

\* requestAnimationFrame(draw) of a preview before the clip's end.
PreviewDraw ==
  /\ previews.drawing > 0
  /\ canvas' = [canvas EXCEPT !.pixels = "preview"]
  /\ UNCHANGED <<suggestedClips, exportBtn, runs, previews>>
  /\ UiFrame

\* requestAnimationFrame(draw) of a preview at the clip's end: resolve().
PreviewEnds ==
  /\ previews.drawing > 0
  /\ previews' = [previews EXCEPT !.drawing = @ - 1]
  /\ UNCHANGED <<suggestedClips, exportBtn, runs, canvas>>
  /\ UiFrame

\* A click on the Remove button of row idx:
\* state.suggestedClips.splice(idx, 1); refreshClips().
RemoveClick(idx) ==
  /\ idx < Len(suggestedClips)
  /\ suggestedClips' = Splice(suggestedClips, idx)
  /\ exportBtn' = refreshClips(suggestedClips')
  /\ UNCHANGED uiVars
  /\ UiFrame

NextUI ==
  \/ AnalyzeClickNoVideo
  \/ AnalyzeClick
  \/ DecodeAudio
  \/ ScenesFail
  \/ ScenesDone
  \/ AnalysisDone
  \/ TranscriptionDone
  \/ ExportClickNoClips
  \/ ExportClick
  \/ \E r \in 1..Len(runs) : RunPrepared(r)
  \/ \E r \in 1..Len(runs) : RunOpened(r)
  \/ \E r \in 1..Len(runs) : RunDraw(r)
  \/ \E r \in 1..Len(runs) : RunClipEnds(r)
  \/ \E r \in 1..Len(runs) : RunFinalized(r)
  \/ PreviewClick
  \/ PreviewOpened
  \/ PreviewDraw
  \/ PreviewEnds
  \/ \E idx \in 0..(MaxClipsIn - 1) : RemoveClick(idx)

SpecUI == InitUI /\ [][NextUI]_vars

-----------------------------------------------------------------------------
(* The operations that read a source file through an object URL:            *)
(* detectScenes (src/src/asr.js 163-202), decodeVideoAudioPCM (asr.js       *)
(* 148-161), renderClipToCanvas (src/src/export.js 81-129) and              *)
(* decodeClipsAudioToPCM (export.js 171-207).  Each one runs alone here,    *)
(* step by step, and every awaited promise or event may fail the way the    *)
(* browser lets it fail: a promise rejects, an event never comes, a canvas  *)
(* call throws.  An operation ends at "returned", at "thrown", or at        *)
(* "stuck" when what it waits for never comes.                              *)

MediaOps ==
  {"detectScenes", "decodeVideoAudioPCM", "renderClipToCanvas",
   "decodeClipsAudioToPCM"}

MediaEnded == {"returned", "thrown", "stuck"}

InitMedia ==
  /\ pc = "start"
  /\ ExportIdle
  /\ FaultIdle
  /\ HostIdle
  /\ UiIdle
  /\ AudioIdle
  /\ AsrIdle
  /\ CurveIdle
  /\ PeaksIdle
  /\ DedupeIdle
  /\ AnalyzeIdle
  /\ SegmentsIdle
  /\ mediaOp \in MediaOps
  /\ mediaItems \in 0..MaxItems
  /\ mediaIdx = 0
  /\ urlsCreated = 0
  /\ urlsRevoked = 0

MediaFrame == UNCHANGED <<peakVars, dedupeVars, analyzeVars, segmentVars,
                          exportVars, mediaOp, mediaItems, faultVars,
                          hostVars, uiVars, curveVars, audioVars,
                          asrVars>>

\* const url = URL.createObjectURL(file); video.src = url;
\* await video.play().catch(() => {}); then the wait for loadeddata begins.
VideoOpen ==
  /\ pc = "start"
  /\ mediaOp \in {"detectScenes", "renderClipToCanvas"}
  /\ urlsCreated' = urlsCreated + 1
  /\ pc' = "loading"
  /\ UNCHANGED <<mediaIdx, urlsRevoked>>
  /\ MediaFrame

\* The file cannot be played: loadeddata never fires and the operation waits
\* for ever.  In detectScenes the same holds for seeked after a seek.
EventNeverComes ==
  /\ \/ pc = "loading" /\ mediaOp \in {"detectScenes", "renderClipToCanvas"}
     \/ pc = "seeking" /\ mediaOp = "detectScenes"
  /\ pc' = "stuck"
  /\ UNCHANGED <<mediaIdx, urlsCreated, urlsRevoked>>
  /\ MediaFrame

\* detectScenes: the head of for (let t = 0; t < video.duration; t += step):
\* seek to the next sample, or after the last one cuts.push(duration),
\* URL.revokeObjectURL(url), return.
ScenesLoopHead(idx) ==
  /\ mediaIdx' = idx
  /\ IF idx < mediaItems
     THEN pc' = "seeking" /\ UNCHANGED urlsRevoked
     ELSE pc' = "returned" /\ urlsRevoked' = urlsRevoked + 1
  /\ UNCHANGED urlsCreated

ScenesLoaded ==
  /\ pc = "loading"
  /\ mediaOp = "detectScenes"
  /\ ScenesLoopHead(0)
  /\ MediaFrame

\* video.onseeked fires.
ScenesSeeked ==
  /\ pc = "seeking"
  /\ mediaOp = "detectScenes"
  /\ pc' = "sampling"
  /\ UNCHANGED <<mediaIdx, urlsCreated, urlsRevoked>>
  /\ MediaFrame

\* ctx.drawImage, ctx.getImageData and the frame difference, then t += step.
ScenesSampled ==
  /\ pc = "sampling"
  /\ mediaOp = "detectScenes"
  /\ ScenesLoopHead(mediaIdx + 1)
  /\ MediaFrame

\* ctx.drawImage or ctx.getImageData throws: detectScenes has no handler, the
\* exception leaves it.
ScenesSampleThrows ==
  /\ pc = "sampling"
  /\ mediaOp = "detectScenes"
  /\ pc' = "thrown"
  /\ UNCHANGED <<mediaIdx, urlsCreated, urlsRevoked>>
  /\ MediaFrame

\* renderClipToCanvas: one call of draw() that does not throw.  mediaItems
\* frames are drawn before the position reaches clip.end; then resolve() and
\* .finally(() => URL.revokeObjectURL(url)).
RenderDraw(idx) ==
  /\ IF idx < mediaItems
     THEN /\ mediaIdx' = idx + 1
          /\ pc' = "frames"
          /\ UNCHANGED urlsRevoked
     ELSE /\ mediaIdx' = idx
          /\ pc' = "returned"
          /\ urlsRevoked' = urlsRevoked + 1
  /\ UNCHANGED urlsCreated

\* loadeddata fires; video.currentTime = clip.start; the promise is built
\* and its executor calls draw() for the first time.
RenderLoaded ==
  /\ pc = "loading"
  /\ mediaOp = "renderClipToCanvas"
  /\ RenderDraw(0)
  /\ MediaFrame

\* The first draw() throws inside the executor: the promise rejects and
\* .finally revokes the URL.
RenderFirstDrawThrows ==
  /\ pc = "loading"
  /\ mediaOp = "renderClipToCanvas"
  /\ pc' = "thrown"
  /\ urlsRevoked' = urlsRevoked + 1
  /\ UNCHANGED <<mediaIdx, urlsCreated>>
  /\ MediaFrame

\* requestAnimationFrame(draw): a later call of draw().
RenderFrame ==
  /\ pc = "frames"
  /\ mediaOp = "renderClipToCanvas"
  /\ RenderDraw(mediaIdx)
  /\ MediaFrame

\* A later draw() throws inside the animation frame callback: nothing
\* catches it, resolve is never called and draw is not scheduled again.
RenderFrameThrows ==
  /\ pc = "frames"
  /\ mediaOp = "renderClipToCanvas"
  /\ pc' = "stuck"
  /\ UNCHANGED <<mediaIdx, urlsCreated, urlsRevoked>>
  /\ MediaFrame

\* decodeVideoAudioPCM: const url = URL.createObjectURL(file); try { ...
\* await fetch(url)
VideoAudioOpen ==
  /\ pc = "start"
  /\ mediaOp = "decodeVideoAudioPCM"
  /\ urlsCreated' = urlsCreated + 1
  /\ pc' = "fetching"
  /\ UNCHANGED <<mediaIdx, urlsRevoked>>
  /\ MediaFrame

\* fetch resolves, then response.arrayBuffer().
VideoAudioFetched ==
  /\ pc = "fetching"
  /\ mediaOp = "decodeVideoAudioPCM"
  /\ pc' = "buffering"
  /\ UNCHANGED <<mediaIdx, urlsCreated, urlsRevoked>>
  /\ MediaFrame

\* arrayBuffer resolves, then audioCtx.decodeAudioData(buf).
VideoAudioBuffered ==
  /\ pc = "buffering"
  /\ mediaOp = "decodeVideoAudioPCM"
  /\ pc' = "decoding"
  /\ UNCHANGED <<mediaIdx, urlsCreated, urlsRevoked>>
  /\ MediaFrame

\* decodeAudioData resolves; return { pcm, sampleRate } through
\* finally { URL.revokeObjectURL(url) }.
VideoAudioDecoded ==
  /\ pc = "decoding"
  /\ mediaOp = "decodeVideoAudioPCM"
  /\ pc' = "returned"
  /\ urlsRevoked' = urlsRevoked + 1
  /\ UNCHANGED <<mediaIdx, urlsCreated>>
  /\ MediaFrame

\* fetch, arrayBuffer or decodeAudioData rejects: the exception leaves the
\* function through finally { URL.revokeObjectURL(url) }.
VideoAudioThrows ==
  /\ pc \in {"fetching", "buffering", "decoding"}
  /\ mediaOp = "decodeVideoAudioPCM"
  /\ pc' = "thrown"
  /\ urlsRevoked' = urlsRevoked + 1
  /\ UNCHANGED <<mediaIdx, urlsCreated>>
  /\ MediaFrame

\* decodeClipsAudioToPCM: the head of for (let i = 0; i < clips.length; i++):
\* const url = URL.createObjectURL(f); await fetch(url), or after the last
\* clip the chunks are joined and returned.
ClipsAudioLoopHead(idx) ==
  /\ mediaIdx' = idx
  /\ IF idx < mediaItems
     THEN pc' = "fetching" /\ urlsCreated' = urlsCreated + 1
     ELSE pc' = "returned" /\ UNCHANGED urlsCreated

ClipsAudioOpen ==
  /\ pc = "start"
  /\ mediaOp = "decodeClipsAudioToPCM"
  /\ ClipsAudioLoopHead(0)
  /\ UNCHANGED urlsRevoked
  /\ MediaFrame

\* fetch resolves, then resp.arrayBuffer().
ClipsAudioFetched ==
  /\ pc = "fetching"
  /\ mediaOp = "decodeClipsAudioToPCM"
  /\ pc' = "buffering"
  /\ UNCHANGED <<mediaIdx, urlsCreated, urlsRevoked>>
  /\ MediaFrame

\* arrayBuffer resolves; URL.revokeObjectURL(url); then decodeAudioData(buf).
ClipsAudioBuffered ==
  /\ pc = "buffering"
  /\ mediaOp = "decodeClipsAudioToPCM"
  /\ pc' = "decoding"
  /\ urlsRevoked' = urlsRevoked + 1
  /\ UNCHANGED <<mediaIdx, urlsCreated>>
  /\ MediaFrame

\* decodeAudioData resolves; the clip's samples are cut and resampled; i++.
ClipsAudioDecoded ==
  /\ pc = "decoding"
  /\ mediaOp = "decodeClipsAudioToPCM"
  /\ ClipsAudioLoopHead(mediaIdx + 1)
  /\ UNCHANGED urlsRevoked
  /\ MediaFrame

\* fetch, arrayBuffer or decodeAudioData rejects: the function has no
\* handler, the exception leaves it.
ClipsAudioThrows ==
  /\ pc \in {"fetching", "buffering", "decoding"}
  /\ mediaOp = "decodeClipsAudioToPCM"
  /\ pc' = "thrown"
  /\ UNCHANGED <<mediaIdx, urlsCreated, urlsRevoked>>
  /\ MediaFrame

NextMedia ==
  \/ VideoOpen
  \/ EventNeverComes
  \/ ScenesLoaded
  \/ ScenesSeeked
  \/ ScenesSampled
  \/ ScenesSampleThrows
  \/ RenderLoaded
  \/ RenderFirstDrawThrows
  \/ RenderFrame
  \/ RenderFrameThrows
  \/ VideoAudioOpen
  \/ VideoAudioFetched
  \/ VideoAudioBuffered
  \/ VideoAudioDecoded
  \/ VideoAudioThrows
  \/ ClipsAudioOpen
  \/ ClipsAudioFetched
  \/ ClipsAudioBuffered
  \/ ClipsAudioDecoded
  \/ ClipsAudioThrows

SpecMedia == InitMedia /\ [][NextMedia]_vars

-----------------------------------------------------------------------------
(* Claims about detectPeaks. *)

PeakSet == {peaksOut[k] : k \in 1..Len(peaksOut)}

\* C4: any two distinct indices returned by detectPeaks differ by at least
\* minDistance.
C4_PeaksApart ==
  pc = "done" =>
    \A j, k \in 1..Len(peaksOut) :
      j # k => (peaksOut[j] - peaksOut[k] >= minDistance
                \/ peaksOut[k] - peaksOut[j] >= minDistance)

\* A run where the distance rule acted: a local maximum above the threshold
\* was skipped and a later one accepted, with minDistance 3 as in analyzeVideos.
C4_Witness ==
  /\ pc = "done"
  /\ minDistance = 3
  /\ Len(peaksOut) >= 2
  /\ \E i \in 1..(Len(arr) - 2) :
       /\ arr[i + 1] > threshold
       /\ arr[i + 1] > arr[i]
       /\ arr[i + 1] >= arr[i + 2]
       /\ i \notin PeakSet

\* C5: detectPeaks returns, in ascending order, exactly the indices chosen by
\* the greedy left-to-right scan: an interior index is returned iff its value
\* exceeds the threshold, exceeds its left neighbour, is at least its right
\* neighbour, and no returned index before it is nearer than minDistance (a
\* skipped index never replaces the accepted one); the curve
\* [0,1,5,1,0,1,6,1,0] with threshold 2 and minDistance 2 gives 2 and 6.
C5_GreedyScan ==
  /\ detectPeaks(<<0, 1, 5, 1, 0, 1, 6, 1, 0>>, 2, 2) = <<2, 6>>
  /\ pc = "done" =>
       /\ \A k \in 1..(Len(peaksOut) - 1) : peaksOut[k] < peaksOut[k + 1]
       /\ PeakSet \subseteq 1..(Len(arr) - 2)
       /\ \A i \in 1..(Len(arr) - 2) :
            i \in PeakSet <=>
              /\ arr[i + 1] > threshold
              /\ arr[i + 1] > arr[i]
              /\ arr[i + 1] >= arr[i + 2]
              /\ \A p \in PeakSet : p < i => i - p >= minDistance

\* A run with an accepted peak, a skipped local maximum and a plateau.
C5_Witness ==
  /\ pc = "done"
  /\ Len(peaksOut) >= 2
  /\ \E i \in 1..(Len(arr) - 2) :
       /\ arr[i + 1] > threshold
       /\ arr[i + 1] > arr[i]
       /\ arr[i + 1] >= arr[i + 2]
       /\ i \notin PeakSet
  /\ \E p \in PeakSet : arr[p + 1] = arr[p + 2]

-----------------------------------------------------------------------------
(* Claims about dedupeClips. *)

Clip(f, s, e) == [fileIndex |-> f, start |-> s, end |-> e]

\* C2: dedupeClips is idempotent: applied to its own output it returns that
\* output, same clips, same order, same start and end.
C2_Idempotent ==
  pc = "deduped" => dedupeClips(dOut, minGapSeconds) = dOut

\* The output clips (by position) of the input's file that contain the input
\* interval c.
Containing(c) ==
  {k \in 1..Len(dOut) :
     /\ dOut[k].fileIndex = c.fileIndex
     /\ dOut[k].start <= c.start
     /\ c.end <= dOut[k].end}

\* C3: dedupeClips returns the clips sorted ascending by (fileIndex, start),
\* every input interval lies in exactly one output clip of its file, and two
\* consecutive output clips of one file are at least minGapSeconds apart
\* (candidates nearer than that are merged, end = max of the ends);
\* [{0,1,3},{0,2,4},{0,6,7}] with gap 1 gives [{0,1,4},{0,6,7}].
C3_MergedAndApart ==
  /\ dedupeClips(<<Clip(0, 20, 60), Clip(0, 40, 80), Clip(0, 120, 140)>>, 20)
       = <<Clip(0, 20, 80), Clip(0, 120, 140)>>
  /\ pc = "deduped" =>
       /\ \A k \in 1..(Len(dOut) - 1) :
            \/ dOut[k].fileIndex < dOut[k + 1].fileIndex
            \/ /\ dOut[k].fileIndex = dOut[k + 1].fileIndex
               /\ dOut[k].start <= dOut[k + 1].start
       /\ \A j \in 1..Len(dClips) : Cardinality(Containing(dClips[j])) = 1
       /\ \A k \in 1..(Len(dOut) - 1) :
            dOut[k].fileIndex = dOut[k + 1].fileIndex =>
              dOut[k + 1].start - dOut[k].end >= minGapSeconds

-----------------------------------------------------------------------------
(* Claims about analyzeVideos and mapGlobalTimeToFileRange. *)

\* C1: every clip returned by analyzeVideos satisfies
\* 0 <= start < end <= duration of its file and end - start >= 0.5 s.
C1_ClipWithinFile ==
  pc = "analyzed" =>
    \A k \in 1..Len(suggestedClips) :
      LET c == suggestedClips[k]
      IN  /\ c.fileIndex \in 0..(Len(durations) - 1)
          /\ 0 <= c.start
          /\ c.start < c.end
          /\ c.end <= durations[c.fileIndex + 1]
          /\ c.end - c.start >= MinClipTicks

\* The sum of the durations of files 0 .. i - 1.
RECURSIVE DurationsBefore(_)
DurationsBefore(i) ==
  IF i = 0 THEN 0 ELSE DurationsBefore(i - 1) + durations[i]

\* The clips of a list of mapping results, nulls left out.
RECURSIVE NonNull(_)
NonNull(results) ==
  IF results = <<>> THEN <<>> ELSE Head(results) \o NonNull(Tail(results))

StartsInFile(start, i) ==
  /\ start >= DurationsBefore(i)
  /\ start < DurationsBefore(i) + durations[i + 1]

\* C6: mapGlobalTimeToFileRange never splits a window across files: a window
\* [start, end] whose start lies in the range of file i maps to exactly
\* {fileIndex: i, start: start - offset_i, end: min(end - offset_i, duration_i)}
\* ([8, 14] over files of 10 s and 15 s maps to file 0, [8, 10]); a window
\* whose start lies in no file's range maps to null, and analyzeVideos drops
\* it and goes on.
C6_MapsIntoOneFile ==
  /\ mapGlobalTimeToFileRange(160, 280, <<200, 300>>, <<0, 200>>)
       = <<Clip(0, 160, 200)>>
  /\ pc = "analyzed" =>
       /\ Len(mapped) = Len(windows)
       /\ candidates = NonNull(mapped)
       /\ \A k \in 1..Len(windows) :
            LET start == windows[k][1]
                end == windows[k][2]
            IN  /\ \A i \in 0..(Len(durations) - 1) :
                     StartsInFile(start, i) =>
                       mapped[k] =
                         <<Clip(i, start - DurationsBefore(i),
                                IF end - DurationsBefore(i) <= durations[i + 1]
                                THEN end - DurationsBefore(i)
                                ELSE durations[i + 1])>>
                /\ (\A i \in 0..(Len(durations) - 1) : ~StartsInFile(start, i))
                     => mapped[k] = <<>>

\* A run over two files in which one window reaches over the end of file 0
\* and is cut there and another
\* starts past the last file and is dropped.
C6_Witness ==
  /\ pc = "analyzed"
  /\ Len(durations) = 2
  /\ \E k \in 1..Len(windows) :
       /\ StartsInFile(windows[k][1], 0)
       /\ windows[k][2] > durations[1]
       /\ mapped[k] = <<Clip(0, windows[k][1], durations[1])>>
  /\ \E k \in 1..Len(windows) :
       /\ windows[k][1] >= durations[1] + durations[2]
       /\ mapped[k] = <<>>
  /\ Len(candidates) < Len(windows)

-----------------------------------------------------------------------------
(* Claims about extractSegments. *)

\* The chunk list extractSegments reads: chunks, else segments, else none.
ChunksRead ==
  IF asrResult = Undefined THEN <<>>
  ELSE IF asrResult[1].chunks # Undefined THEN asrResult[1].chunks[1]
  ELSE IF asrResult[1].segments # Undefined THEN asrResult[1].segments[1]
  ELSE <<>>

NumberOr0(o) == IF o = <<>> THEN 0 ELSE o[1]

\* The time pair (s, e) a chunk carries, a missing number read as 0.
CarriedPair(ch) ==
  IF ch.timestamp # <<>>
  THEN <<NumberOr0(ch.timestamp[1][1]), NumberOr0(ch.timestamp[1][2])>>
  ELSE IF ch.timestart # <<>> \/ ch.timeend # <<>>
  THEN <<NumberOr0(ch.timestart), NumberOr0(ch.timeend)>>
  ELSE <<NumberOr0(ch.start), NumberOr0(ch.end)>>

CarriesNoTime(ch) ==
  /\ ch.timestamp = <<>> /\ ch.time = <<>>
  /\ ch.timestart = <<>> /\ ch.timeend = <<>>
  /\ ch.start = <<>> /\ ch.end = <<>>

\* C8: a chunk carrying (s, e), s >= 0, as timestamp: [s, e], as
\* timestart/timeend or as start/end yields the segment with start = s and
\* end = max(s, e); a missing start or end counts as 0.
C8_TimePairKept ==
  (pc = "extracted" /\ asrResult # Undefined) =>
    /\ Len(captionSegments[1]) >= Len(ChunksRead)
    /\ \A k \in 1..Len(ChunksRead) :
         ChunksRead[k].time = <<>> =>
           LET s == CarriedPair(ChunksRead[k])[1]
               e == CarriedPair(ChunksRead[k])[2]
           IN  /\ captionSegments[1][k].start = s
               /\ captionSegments[1][k].end = (IF s >= e THEN s ELSE e)

-----------------------------------------------------------------------------
(* Claims about the render loop. *)

\* C7: within one export run, while the export time of the frames does not
\* go back, the caption cursor of a rendered frame is never below the cursor
\* of the frame before it, the frames of a later clip included.
C7_CursorMonotone ==
  [][((frame.tExport # <<>> /\ frame'.tExport # <<>>)
         => frame'.tExport[1] >= frame.tExport[1])
       => frame'.segIdx >= frame.segIdx]_vars

\* The first frame of the second clip: its render began with a cursor of 0,
\* and the frame left it past the first of two segments.
C7_Witness ==
  /\ frame.clipIndex = 1
  /\ frame.tExport = <<exportOffset>>
  /\ frame.segIdx >= 1
  /\ Len(captionSegments[1]) >= 2

\* C10: once the recorder has started, every clip render resolves and the
\* export reaches recorder.stop().
C10_ExportFinalizes == (recorder = "recording") ~> (recorder = "stopped")

\* The summed length of the first i clips.
RECURSIVE SumLengths(_, _)
SumLengths(clips, i) ==
  IF i = 0 THEN 0
  ELSE SumLengths(clips, i - 1) + (clips[i].end - clips[i].start)

\* C11: the export time of every frame drawn for clip i is the summed length
\* of the clips before i plus the playback position minus the clip's start,
\* it lies in [offset_i, offset_i+1), and it is above the export time of the
\* frame drawn before.
C11_ExportTimeIncreases ==
  [][(frame' # frame /\ frame'.tExport # <<>>) =>
       LET i == frame'.clipIndex
           t == frame'.tExport[1]
       IN  /\ t = SumLengths(suggestedClips, i)
                    + (currentTime' - suggestedClips[i + 1].start)
           /\ SumLengths(suggestedClips, i) <= t
           /\ t < SumLengths(suggestedClips, i + 1)
           /\ frame.tExport # <<>> => t > frame.tExport[1]]_vars

\* A frame of the second clip drawn after the playback position has moved.
C11_Witness ==
  /\ frame.clipIndex = 1
  /\ frame.tExport # <<>>
  /\ frame.tExport[1] > exportOffset
  /\ currentTime > suggestedClips[2].start

-----------------------------------------------------------------------------
(* Claims about the object URLs. *)

\* C12: when an operation that reads a source file has ended (returned,
\* thrown, or stopped making progress), every object URL it created has
\* been revoked.
C12_UrlsReleased == pc \in MediaEnded => urlsRevoked = urlsCreated

-----------------------------------------------------------------------------
(* Claims about failures. *)

\* C13: when the transcription step of an export fails (the clip audio
\* decode, the model load or the transcription throws, or nothing comes
\* back), no frame carries a caption, and the export, once recording,
\* renders the clips in order and delivers its output.
C13_AsrFailureNotFatal ==
  /\ [](asrOutcome \in AsrFailures => frame.caption = <<>>)
  /\ [][(asrOutcome \in AsrFailures) =>
         (clipIndex' = clipIndex \/ clipIndex' = clipIndex + 1)]_vars
  /\ (asrOutcome \in AsrFailures /\ recorder = "recording") ~> (pc = "done")

\* C14: when the decode of one of the files fails, the analysis ends there
\* as a whole (no later file is handled, nothing is returned), and the
\* suggested clips and the stored transcription stay what they were.
C14_DecodeFailureAborts ==
  [][(analysisError' = "decode") =>
       /\ aPc' = "idle"
       /\ suggestedClips' = suggestedClips
       /\ transcription' = transcription
       /\ aFile' = aFile]_vars

\* The decode of the second file has failed in a run that followed a run
\* which suggested clips.
C14_Witness ==
  /\ analysisError = "decode"
  /\ aFile = 1
  /\ clicks = 2
  /\ suggestedClips # <<>>

\* C15: once an error has been raised while a clip is rendered, no later
\* clip is rendered, no output is delivered, and exportCompilation rejects.
C15_RenderErrorAborts ==
  /\ [](renderError # "none" => pc \notin {"finalizing", "done"})
  /\ [][(renderError # "none") => clipIndex' = clipIndex]_vars
  /\ (renderError # "none") ~> (pc = "rejected")

\* An export run is in flight: started by a click and not settled yet.
ExportInFlight == \E r \in 1..Len(runs) : runs[r].phase # "settled"

(* C16: while an export run is in progress, from the Export click until     *)
(* exportCompilation settles, nothing but the export sets the size of the   *)
(* output canvas or draws on it: no step taken while a run is in flight     *)
(* makes a preview the last one to have resized the canvas or to have drawn *)
(* on it.                                                                   *)
C16_CanvasExclusive ==
  [][ExportInFlight =>
        /\ canvas'.size # canvas.size => canvas'.size # "preview"
        /\ canvas'.pixels # canvas.pixels => canvas'.pixels # "preview"]_vars

(* C17: at any moment at most one render loop of the compositor is drawing  *)
(* frames, whatever the order of the clicks on Export, Remove and Analyze.  *)
C17_OneRenderLoop ==
  Cardinality({r \in 1..Len(runs) : runs[r].phase = "drawing"}) <= 1

(* C18: analyzeVideos produces at most maxClips candidate clips, for every  *)
(* maxClips >= 0, and so returns at most maxClips clips; the candidates     *)
(* come from the accepted peaks in ascending index order, and the loop      *)
(* stops as soon as maxClips candidates exist.                              *)
C18_AtMostMaxClips ==
  pc = "analyzed" =>
    /\ Len(candidates) <= maxClips
    /\ Len(suggestedClips) <= maxClips
    /\ Len(windows) <= Len(peaks)
    /\ \A k \in 1..Len(windows) :
         windows[k][1] = WindowStart(peaks[k], minLen)
    /\ Len(windows) < Len(peaks) => Len(candidates) = maxClips

\* arr[lo] + ... + arr[hi]
RECURSIVE SumRange(_, _, _)
SumRange(a, lo, hi) ==
  IF lo > hi THEN 0 ELSE At(a, lo) + SumRange(a, lo + 1, hi)

(* C19: movingAverage(c, k) returns a sequence as long as c; for i < k - 1  *)
(* its value at i is the mean of c[0..i], with divisor i + 1, and for       *)
(* i >= k - 1 it is the mean of the last k values c[i-k+1..i].  (A fraction *)
(* n / d equals the mean s / m when n * m = s * d.)                         *)
C19_MovingAverage ==
  pc = "averaged" =>
    /\ Len(avgOut) = Len(avgArr)
    /\ \A i \in 0..(Len(avgArr) - 1) :
         /\ avgOut[i + 1].den > 0
         /\ IF i < avgK - 1
            THEN avgOut[i + 1].num * (i + 1)
                   = SumRange(avgArr, 0, i) * avgOut[i + 1].den
            ELSE avgOut[i + 1].num * avgK
                   = SumRange(avgArr, i - avgK + 1, i) * avgOut[i + 1].den

\* A curve longer than the window, of different non-zero values: its first
\* value comes back as it is, its last one as the mean of the last k.
C19_Witness ==
  /\ pc = "averaged"
  /\ avgK >= 3
  /\ Len(avgArr) > avgK + 1
  /\ avgArr[1] = 2
  /\ avgArr[2] = 1
  /\ avgArr[Len(avgArr)] = 2
  /\ avgOut[1] = Fraction(2, 1)
  /\ avgOut[2] = Fraction(3, 2)
  /\ avgOut[Len(avgArr)].den = avgK
  /\ avgOut[Len(avgArr)].num = SumRange(avgArr, Len(avgArr) - avgK, Len(avgArr) - 1)
  /\ avgOut[Len(avgArr)].num < SumRange(avgArr, 0, Len(avgArr) - 1)

C21_SegmentsWellFormed ==
  (pc = "extracted" /\ asrResult # Undefined) =>
    LET chunks == ResultChunks(ValueOf(asrResult))
        segs == ValueOf(captionSegments)
    IN  /\ captionSegments # Undefined
        /\ chunks # <<>> =>
             /\ Len(segs) = Len(chunks)
             /\ \A n \in 1..Len(chunks) : segs[n].text = chunks[n].text
        /\ \A n \in 1..Len(segs) :
             0 <= segs[n].start /\ segs[n].start <= segs[n].end

\* The caption list is sorted ascending by start and its segments do not
\* overlap: each one ends no later than the next one starts.
SortedApart(segs) ==
  \A n \in 1..(Len(segs) - 1) :
    segs[n].start <= segs[n + 1].start /\ segs[n].end <= segs[n + 1].start

Contains(seg, t) == seg.start <= t /\ t <= seg.end

(* C22: with a caption list sorted ascending by start whose segments do not *)
(* overlap, every rendered frame with export time t shows a caption exactly *)
(* when some segment contains t, and the caption shown is the text of a     *)
(* segment that contains t, in the first clip and in the later ones, where  *)
(* the cursor has started again from 0.                                     *)
C22_CaptionIffContained ==
  (/\ frame.tExport # <<>>
   /\ captionSegments # <<>>
   /\ SortedApart(captionSegments[1])) =>
    LET segs == captionSegments[1]
        t == frame.tExport[1]
    IN  /\ frame.caption # <<>> <=> \E n \in 1..Len(segs) : Contains(segs[n], t)
        /\ frame.caption # <<>> =>
             \E n \in 1..Len(segs) :
               Contains(segs[n], t) /\ frame.caption = <<segs[n].text>>

\* A frame of the second clip that shows the second caption, the cursor
\* having started again from 0 in that clip; the list has a gap between its
\* two captions.
C22_Witness ==
  /\ frame.clipIndex = 1
  /\ captionSegments # <<>>
  /\ Len(captionSegments[1]) = 2
  /\ SortedApart(captionSegments[1])
  /\ captionSegments[1][1].end < captionSegments[1][2].start
  /\ frame.tExport # <<>>
  /\ Contains(captionSegments[1][2], frame.tExport[1])
  /\ frame.caption = <<"b">>
  /\ frame.segIdx = 1

(* C23: the clips one export run renders are the suggested clip list as it  *)
(* was at the Export click, in that order: while the run is in flight the   *)
(* clips it has rendered are the first ones of that list, and when its loop *)
(* is over they are the whole list, whatever Remove clicks and analyses     *)
(* happened meanwhile.                                                      *)
C23_RendersListAtClick ==
  \A r \in 1..Len(runs) :
    /\ Len(runs[r].rendered) <= Len(runs[r].atClick)
    /\ runs[r].rendered = SubSeq(runs[r].atClick, 1, Len(runs[r].rendered))
    /\ runs[r].phase \in {"finalizing", "settled"} =>
         runs[r].rendered = runs[r].atClick

\* Node a is connected to node b.
Feeds(a, b) == <<a, b>> \in graphEdges

\* The sources of the graph that reach the destination through the gain
\* node g and through nothing else.
SourcesThrough(g) ==
  {n \in graphNodes :
     n.gain = Undefined /\ n.name # "destination"
       /\ Feeds(n.name, g) /\ Feeds(g, "destination")}

(* C24: after prepareAudioGraph the destination is fed by the clip audio,   *)
(* through the speech gain stage at gain 1.0, and, exactly when a music     *)
(* file was given, by one music source scaled by musicGain; without a music *)
(* file the destination still receives the clip audio.                      *)
C24_MixFeedsDestination ==
  pc = "returned" =>
    /\ AudioNode("speechGain", Some(UnitGain), FALSE) \in graphNodes
    /\ SourcesThrough("speechGain") # {}
    /\ \E e \in graphEdges : e[2] = "destination"
    /\ IF musicFile = Undefined
       THEN \A n \in graphNodes : n.name \notin {"musicSource", "musicGainNode"}
       ELSE /\ AudioNode("musicGainNode", Some(musicGain), FALSE) \in graphNodes
            /\ SourcesThrough("musicGainNode")
                 = {AudioNode("musicSource", Undefined, TRUE)}

(* C25: getPipeline starts the load of the ASR model at most once per       *)
(* session: every call of runTranscriptionIfEnabled or transcribePCM that   *)
(* reaches getPipeline awaits the promise of that one load, also a call     *)
(* made while the load is pending and a call made after it has failed.      *)
C25_OneLoad ==
  /\ Len(loads) <= 1
  /\ pipelinePromise \in {Undefined, Some(1)}
  /\ \A c \in 1..Len(calls) :
       /\ calls[c].found # "none" => calls[c].load = Some(1)
       /\ calls[c].found = "none" => calls[c].load = Undefined
       /\ (calls[c].at = "returned" /\ calls[c].result = "result") =>
            loads[1] = "fulfilled"

\* Three calls have returned: the first started the load, the second came
\* while it was pending, the third after it had failed.
C25_Witness ==
  /\ Len(calls) = 3
  /\ calls[1].found = "null"
  /\ calls[2].found = "pending"
  /\ calls[3].found = "rejected"
  /\ loads = <<"rejected">>
  /\ \A c \in 1..3 : calls[c].at = "returned" /\ calls[c].load = Some(1)
  /\ {calls[c].fn : c \in 1..3} = AsrFunctions

=============================================================================
